---- MODULE Spec2Model ----
(***************************************************************************)
(* A model of pysubnet (src/src/pysubnet): the chainspec handlers as pure  *)
(* operators over a chainspec document, the bootstrap orchestration of     *)
(* main(), and the node supervisor of helpers/substrate.py.                *)
(***************************************************************************)
EXTENDS Integers, Sequences, FiniteSets, TLC

(***************************************************************************)
(* Bounds of the model.                                                    *)
(***************************************************************************)
NumNodes == 2
MaxLines == 5
MaxApply == 2
MaxAddresses == 2

(***************************************************************************)
(* Program constants.                                                      *)
(***************************************************************************)
DEFAULT_TOKEN_DECIMALS == 18
DEFAULT_AMOUNT == 500
POA_VS_AMOUNT == 5234
P2P_DEFAULT == 30333
RPC_DEFAULT == 9944
PROM_DEFAULT == 9615
HEX_ADDRESS_LEN == 40
SS58_MIN_LEN == 47
SS58_MAX_LEN == 48
BABE_EPOCH_DURATION == 2400
STAKING_AMOUNT == 100000
STAKE_TOKENS == 10000
STAKE_DECIMALS == 18
PERBILL == 1000000000
HISTORY_DEPTH == 336
PHRASE_WORDS == 12
PUBLIC_KEY_HEX_DIGITS == 64

(***************************************************************************)
(* Python values that may be None, an int or a str (dict.get, Optional).   *)
(***************************************************************************)
None == [t |-> "none", i |-> 0, s |-> ""]
IntV(n) == [t |-> "int", i |-> n, s |-> ""]
StrV(x) == [t |-> "str", i |-> 0, s |-> x]

Truthy(v) ==
    CASE v.t = "none" -> FALSE
      [] v.t = "int" -> v.i # 0
      [] v.t = "str" -> v.s # ""

PyOr(a, b) == IF Truthy(a) THEN a ELSE b

(***************************************************************************)
(* Python ints are unbounded.  A natural number is kept as its decimal     *)
(* digits, least significant first, without leading zeros (zero is <<0>>). *)
(***************************************************************************)
RECURSIVE StripZeros(_)
StripZeros(ds) ==
    IF Len(ds) > 1 /\ ds[Len(ds)] = 0
    THEN StripZeros(SubSeq(ds, 1, Len(ds) - 1))
    ELSE ds

RECURSIVE NatDigits(_)
NatDigits(n) == IF n < 10 THEN <<n>> ELSE <<n % 10>> \o NatDigits(n \div 10)

RECURSIVE MulCarry(_, _, _)
MulCarry(ds, k, carry) ==
    IF ds = <<>>
    THEN IF carry = 0 THEN <<>> ELSE NatDigits(carry)
    ELSE LET v == ds[1] * k + carry
         IN  <<v % 10>> \o MulCarry(Tail(ds), k, v \div 10)

\* big * small, exact
MulSmall(ds, k) == StripZeros(MulCarry(ds, k, 0))

\* 10 ** d for an int d >= 0
RECURSIVE Pow10(_)
Pow10(d) == IF d = 0 THEN <<1>> ELSE MulSmall(Pow10(d - 1), 10)

(***************************************************************************)
(* Nodes.  Key material is a triple <<kind, part, node name>>; a key that a *)
(* dict does not hold is Absent.                                           *)
(***************************************************************************)
Absent == <<>>
NodeNames == <<"alice", "bob", "charlie", "david">>

AccountKeyTypes == {"AccountId20", "AccountId32"}

get_vkey(account_key_type) ==
    IF account_key_type = "AccountId20"
    THEN "validator_accountid20_public_key"
    ELSE "validator_accountid32_ss58"

\* a node as parse_args builds it: name and ports only
DefaultNode(i) ==
    [name |-> NodeNames[i],
     p2p_port |-> P2P_DEFAULT + (i - 1),
     rpc_port |-> RPC_DEFAULT + (i - 1),
     prometheus_port |-> PROM_DEFAULT + (i - 1),
     balance |-> None,
     base_path |-> Absent,
     docker_ip |-> Absent,
     libp2p_public_key |-> Absent,
     libp2p_private_key |-> Absent,
     aura_public_key |-> Absent,
     aura_private_key |-> Absent,
     aura_ss58 |-> Absent,
     aura_secret_phrase |-> Absent,
     babe_public_key |-> Absent,
     babe_private_key |-> Absent,
     babe_ss58 |-> Absent,
     babe_secret_phrase |-> Absent,
     grandpa_public_key |-> Absent,
     grandpa_private_key |-> Absent,
     grandpa_ss58 |-> Absent,
     grandpa_secret_phrase |-> Absent,
     validator_accountid20_private_key |-> Absent,
     validator_accountid20_public_key |-> Absent,
     validator_accountid32_private_key |-> Absent,
     validator_accountid32_public_key |-> Absent,
     validator_accountid32_ss58 |-> Absent]

(***************************************************************************)
(* Strings that the code inspects character by character are sequences of  *)
(* one-character strings.                                                  *)
(***************************************************************************)
Rep(c, n) == [k \in 1..n |-> c]

HexLowerChars == {"0", "1", "2", "3", "4", "5", "6", "7", "8", "9",
                  "a", "b", "c", "d", "e", "f"}
HexChars == HexLowerChars \cup {"A", "B", "C", "D", "E", "F"}
\* [1-9A-HJ-NP-Za-km-z]
Base58Chars == {"1", "2", "3", "4", "5", "6", "7", "8", "9",
                "A", "B", "C", "D", "E", "F", "G", "H", "J", "K", "L", "M", "N",
                "P", "Q", "R", "S", "T", "U", "V", "W", "X", "Y", "Z",
                "a", "b", "c", "d", "e", "f", "g", "h", "i", "j", "k",
                "m", "n", "o", "p", "q", "r", "s", "t", "u", "v", "w", "x", "y", "z"}

\* str.lower() on the characters the model's strings are made of
LowerChar(c) ==
    CASE c = "A" -> "a" [] c = "B" -> "b" [] c = "C" -> "c" [] c = "D" -> "d"
      [] c = "E" -> "e" [] c = "F" -> "f" [] c = "G" -> "g" [] c = "X" -> "x"
      [] c = "Z" -> "z" [] c = "L" -> "l" [] c = "O" -> "o" [] c = "V" -> "v"
      [] OTHER -> c
Lower(str) == [k \in 1..Len(str) |-> LowerChar(str[k])]

\* str.replace('0x', ''): every non-overlapping occurrence, left to right
RECURSIVE Remove0x(_)
Remove0x(str) ==
    IF Len(str) < 2 THEN str
    ELSE IF str[1] = "0" /\ str[2] = "x" THEN Remove0x(SubSeq(str, 3, Len(str)))
    ELSE <<str[1]>> \o Remove0x(Tail(str))

\* re.match(r'^[chars]{lo,hi}$', str): '$' also matches before a final newline
MatchClass(str, chars, lo, hi) ==
    LET body == IF Len(str) > 0 /\ str[Len(str)] = "\n"
                   /\ Len(str) - 1 >= lo /\ Len(str) - 1 <= hi
                THEN SubSeq(str, 1, Len(str) - 1) ELSE str
    IN  /\ Len(body) >= lo
        /\ Len(body) <= hi
        /\ \A k \in 1..Len(body) : body[k] \in chars

validate_hex_address(address) ==
    MatchClass(Remove0x(Lower(address)), HexLowerChars, HEX_ADDRESS_LEN, HEX_ADDRESS_LEN)

validate_ss58_address(address) ==
    MatchClass(address, Base58Chars, SS58_MIN_LEN, SS58_MAX_LEN)

\* a dict as a sequence of <<key, value>> pairs in insertion order
RECURSIVE DictPut(_, _, _)
DictPut(d, k, v) ==
    IF d = <<>> THEN <<<<k, v>>>>
    ELSE IF Head(d)[1] = k THEN <<<<k, v>>>> \o Tail(d)
    ELSE <<Head(d)>> \o DictPut(Tail(d), k, v)

RECURSIVE normalize_hex_addresses(_)
normalize_hex_addresses(hex) ==
    IF hex = <<>> THEN <<>>
    ELSE LET front == normalize_hex_addresses(SubSeq(hex, 1, Len(hex) - 1))
             last == hex[Len(hex)]
         IN  DictPut(front, <<"0", "x">> \o Remove0x(Lower(last[1])), last[2])

(***************************************************************************)
(* The tool's text output is a sequence of whitespace-separated tokens: a   *)
(* word of a label, or a value (key material, or a string of characters).   *)
(* A label is found where its words follow each other.                      *)
(***************************************************************************)
Word(w) == [w |-> w, c |-> <<>>]
Data(c) == [w |-> "", c |-> c]
TokenText(t) == IF t.w # "" THEN <<t.w>> ELSE t.c
Label(words) == [k \in 1..Len(words) |-> Word(words[k])]

SECRET_PHRASE == Label(<<"Secret", "phrase:">>)
SECRET_SEED == Label(<<"Secret", "seed:">>)
PUBLIC_KEY_HEX == Label(<<"Public", "key", "(hex):">>)
PUBLIC_KEY_SS58 == Label(<<"Public", "key", "(SS58):">>)
ACCOUNT_ID == Label(<<"Account", "ID:">>)

Occurrences(output, label) ==
    {i \in 1..Len(output) :
        /\ i + Len(label) - 1 <= Len(output)
        /\ \A j \in 1..Len(label) : output[i + j - 1] = label[j]}

Least(S) == CHOOSE x \in S : \A y \in S : x <= y

\* output.split(label)[1].split(): the tokens between the first occurrence
\* of the label and the next one
SplitSecond(output, label) ==
    LET occ == Occurrences(output, label)
        start == Least(occ) + Len(label)
        later == {i \in occ : i >= start}
        stop == IF later = {} THEN Len(output) + 1 ELSE Least(later)
    IN  SubSeq(output, start, stop - 1)

\* output.split(label)[1].split()[0]: IndexError when the label is not in
\* the output, and when no token follows it
FieldAfter(output, label) ==
    IF Occurrences(output, label) = {} THEN [err |-> "IndexError", value |-> <<>>]
    ELSE IF SplitSecond(output, label) = <<>> THEN [err |-> "IndexError", value |-> <<>>]
    ELSE [err |-> "", value |-> TokenText(SplitSecond(output, label)[1])]

\* " ".join(output.split("Secret phrase:")[1].split()[:12]), or None
PhraseAfter(output) ==
    IF Occurrences(output, SECRET_PHRASE) = {} THEN [none |-> TRUE, words |-> <<>>]
    ELSE LET rest == SplitSecond(output, SECRET_PHRASE)
             n == IF Len(rest) < PHRASE_WORDS THEN Len(rest) ELSE PHRASE_WORDS
         IN  [none |-> FALSE, words |-> [k \in 1..n |-> TokenText(rest[k])]]

NoKeyData == [secret_phrase |-> [none |-> TRUE, words |-> <<>>], secret |-> <<>>,
              public_key |-> <<>>, ss58_address |-> <<>>, account_id |-> <<>>]

\* mutant: a label that is not found gives an empty field
parse_subkey_output_lenient(output) ==
    [err |-> "",
     data |-> [secret_phrase |-> PhraseAfter(output),
               secret |-> FieldAfter(output, SECRET_SEED).value,
               public_key |-> FieldAfter(output, PUBLIC_KEY_HEX).value,
               ss58_address |-> FieldAfter(output, PUBLIC_KEY_SS58).value,
               account_id |-> FieldAfter(output, ACCOUNT_ID).value]]

parse_subkey_output(output) ==
    LET secret == FieldAfter(output, SECRET_SEED)
        public_key == FieldAfter(output, PUBLIC_KEY_HEX)
        ss58_address == FieldAfter(output, PUBLIC_KEY_SS58)
        account_id == FieldAfter(output, ACCOUNT_ID)
    IN  IF secret.err # "" \/ public_key.err # "" \/ ss58_address.err # ""
           \/ account_id.err # ""
        THEN [err |-> "IndexError", data |-> NoKeyData]
        ELSE [err |-> "",
              data |-> [secret_phrase |-> PhraseAfter(output),
                        secret |-> secret.value,
                        public_key |-> public_key.value,
                        ss58_address |-> ss58_address.value,
                        account_id |-> account_id.value]]

\* mutant: only the 0x prefix and the characters are looked at, not the length
is_valid_public_key_any_length(key) ==
    /\ Len(key) >= 2
    /\ key[1] = "0"
    /\ key[2] = "x"
    /\ \A k \in 3..Len(key) : key[k] \in HexChars

\* re.fullmatch(r"^0x[0-9a-fA-F]{64}$", key)
is_valid_public_key(key) ==
    /\ Len(key) = 2 + PUBLIC_KEY_HEX_DIGITS
    /\ key[1] = "0"
    /\ key[2] = "x"
    /\ \A k \in 3..Len(key) : key[k] \in HexChars

(***************************************************************************)
(* Running the tool.  `tool` is what the command does: its exit code, its  *)
(* stderr, and whether its stdout is JSON.  An exception is its type and   *)
(* the parts its message is made of.                                       *)
(***************************************************************************)
Returned(value) == [raised |-> FALSE, type |-> "", message |-> <<>>, value |-> value]
Exc(type, message) == [raised |-> TRUE, type |-> type, message |-> message, value |-> <<>>]

\* helpers/process.py: subprocess.run, and an Exception on a nonzero exit
run_command(command, tool) ==
    IF tool.exit_code # "0"
    THEN Exc("Exception", <<<<"Command failed: ">>, command, tool.stderr>>)
    ELSE Returned(<<"stdout", "stderr">>)

\* Substrate.run_command; containers.run without detach raises
\* docker.errors.ContainerError, which holds the command and the stderr
Substrate_run_command(exec_type, source, command_args, json, tool) ==
    IF exec_type = "bin"
    THEN LET r == run_command(<<source>> \o command_args, tool)
         IN  IF r.raised THEN r
             ELSE IF json
             THEN IF tool.stdout_json THEN Returned(<<"json">>)
                  ELSE Exc("ValueError", <<<<"Failed to parse JSON output: ">>, <<"stdout">>>>)
             ELSE r
    ELSE IF json
    THEN IF tool.exit_code # "0"
         THEN Exc("RuntimeError", <<<<"Container exited with code ">>, <<tool.exit_code>>>>)
         ELSE IF tool.stdout_json THEN Returned(<<"json">>)
         ELSE Exc("JSONDecodeError", <<<<"tmp.json">>>>)
    ELSE IF tool.exit_code # "0"
         THEN Exc("ContainerError",
                  <<<<"Command ">>, command_args, <<" in image ">>, <<source>>,
                    <<" returned non-zero exit status ">>, <<tool.exit_code>>,
                    tool.stderr>>)
         ELSE Returned(<<"stdout">>)

(***************************************************************************)
(* helpers/config.py: the validation of the node list of a config file.    *)
(* A validation context is None, or a dict that may hold                   *)
(* "skip_port_validation".                                                 *)
(***************************************************************************)
ValidationContexts ==
    {[none |-> TRUE, keys |-> {}, skip_port_validation |-> FALSE],
     [none |-> FALSE, keys |-> {}, skip_port_validation |-> FALSE],
     [none |-> FALSE, keys |-> {"skip_port_validation"}, skip_port_validation |-> TRUE],
     [none |-> FALSE, keys |-> {"skip_port_validation"}, skip_port_validation |-> FALSE],
     [none |-> FALSE, keys |-> {"strict"}, skip_port_validation |-> FALSE]}

\* info.context and info.context.get("skip_port_validation", True)
skip_same_port_validation(context) ==
    /\ ~context.none
    /\ context.keys # {}
    /\ IF "skip_port_validation" \in context.keys THEN context.skip_port_validation
       ELSE TRUE

\* the loop over the nodes from node k on, with the sets seen so far
RECURSIVE ValidateFrom(_, _, _, _)
ValidateFrom(nodes, k, seen, skip) ==
    IF k > Len(nodes) THEN Returned(nodes)
    ELSE IF nodes[k].name \in seen.names
    THEN Exc("ValueError", <<<<"Duplicate node name found: ">>, <<nodes[k].name>>>>)
    ELSE IF skip THEN ValidateFrom(nodes, k + 1, seen, skip)
    ELSE IF nodes[k].rpc_port \in seen.rpc_ports
    THEN Exc("ValueError", <<<<"Duplicate rpc-port found: ">>>>)
    ELSE IF nodes[k].p2p_port \in seen.p2p_ports
    THEN Exc("ValueError", <<<<"Duplicate p2p-port found: ">>>>)
    ELSE IF nodes[k].prometheus_port \in seen.prometheus_ports
    THEN Exc("ValueError", <<<<"Duplicate prometheus-port found: ">>>>)
    ELSE ValidateFrom(nodes, k + 1,
            [names |-> seen.names \cup {nodes[k].name},
             rpc_ports |-> seen.rpc_ports \cup {nodes[k].rpc_port},
             p2p_ports |-> seen.p2p_ports \cup {nodes[k].p2p_port},
             prometheus_ports |-> seen.prometheus_ports \cup {nodes[k].prometheus_port}],
            skip)

validate_unique_node_attributes(nodes, context) ==
    ValidateFrom(nodes, 1,
                 [names |-> {}, rpc_ports |-> {}, p2p_ports |-> {}, prometheus_ports |-> {}],
                 skip_same_port_validation(context))

(***************************************************************************)
(* Key generation: what the tool prints for one key, and generate_keys on  *)
(* one key of one node.                                                    *)
(***************************************************************************)
PhraseTokens == [k \in 1..PHRASE_WORDS |-> Word("abandon")]

\* what `key generate` prints; `omit` is the set of parts the output lacks
\* ("hexvalue": the label of the public key is there, its value is not)
SubkeyOutput(secret, public_key, ss58, omit) ==
    (IF "phrase" \in omit THEN <<>> ELSE SECRET_PHRASE \o PhraseTokens)
    \o (IF "seed" \in omit THEN <<>> ELSE SECRET_SEED \o <<Data(secret)>>)
    \o (IF "hex" \in omit THEN <<>>
        ELSE IF "hexvalue" \in omit THEN PUBLIC_KEY_HEX
        ELSE PUBLIC_KEY_HEX \o <<Data(public_key)>>)
    \o (IF "account" \in omit THEN <<>> ELSE ACCOUNT_ID \o <<Data(public_key)>>)
    \o (IF "ss58" \in omit THEN <<>> ELSE PUBLIC_KEY_SS58 \o <<Data(ss58)>>)
    \o (IF "ss58" \in omit THEN <<>>
        ELSE Label(<<"SS58", "Address:">>) \o <<Data(ss58)>>)

KeyReport(kind, name, omit) ==
    SubkeyOutput(<<kind, "secret", name>>, <<kind, "pub", name>>, <<kind, "ss58", name>>, omit)

\* mutant: both validator-account keys are generated
KeySteps_BothShapes(account_key_type) ==
    <<"libp2p", "aura", "babe", "grandpa", "validator20", "validator32">>

\* the key fields generate_keys sets on one node, in the order it sets them
KeySteps(account_key_type) ==
    <<"libp2p", "aura", "babe", "grandpa">>
    \o (IF account_key_type = "AccountId20" THEN <<"validator20">> ELSE <<"validator32">>)

StepKind(step) == IF step = "validator32" THEN "val" ELSE step

\* the assignments to the node that follow one parse_subkey_output
SetKey(node, step, out) ==
    CASE step = "aura" ->
            [node EXCEPT !.aura_public_key = out.public_key,
                         !.aura_private_key = out.secret,
                         !.aura_secret_phrase = out.secret_phrase.words,
                         !.aura_ss58 = out.ss58_address]
      [] step = "babe" ->
            [node EXCEPT !.babe_public_key = out.public_key,
                         !.babe_private_key = out.secret,
                         !.babe_secret_phrase = out.secret_phrase.words,
                         !.babe_ss58 = out.ss58_address]
      [] step = "grandpa" ->
            [node EXCEPT !.grandpa_public_key = out.public_key,
                         !.grandpa_private_key = out.secret,
                         !.grandpa_secret_phrase = out.secret_phrase.words,
                         !.grandpa_ss58 = out.ss58_address]
      [] step = "validator32" ->
            [node EXCEPT !.validator_accountid32_private_key = out.secret,
                         !.validator_accountid32_public_key = out.public_key,
                         !.validator_accountid32_ss58 = out.ss58_address]

\* one key of generate_keys: the tool is run (exit_ok: it exited with 0) and
\* its output parsed; the AccountId20 key pair is made without the tool
generate_key(node, step, exit_ok, output) ==
    IF step = "validator20"
    THEN [err |-> "",
          node |-> [node EXCEPT
                !.validator_accountid20_private_key = <<"eth", "secret", node.name>>,
                !.validator_accountid20_public_key = <<"eth", "address", node.name>>]]
    ELSE IF ~exit_ok THEN [err |-> "Exception", node |-> node]
    ELSE IF step = "libp2p"
    THEN [err |-> "",
          node |-> [node EXCEPT
                !.libp2p_public_key = <<"libp2p", "pub", node.name>>,
                !.libp2p_private_key = <<"libp2p", "secret", node.name>>]]
    ELSE LET parsed == parse_subkey_output(output)
         IN  IF parsed.err # "" THEN [err |-> parsed.err, node |-> node]
             ELSE [err |-> "", node |-> SetKey(node, step, parsed.data)]

RECURSIVE SetKeys(_, _)
SetKeys(node, steps) ==
    IF steps = <<>> THEN node
    ELSE SetKeys(generate_key(node, Head(steps), TRUE,
                              KeyReport(StepKind(Head(steps)), node.name, {})).node,
                 Tail(steps))

\* a node after setup_dirs and generate_keys
KeyedNode(i, account_key_type, balance) ==
    SetKeys([DefaultNode(i) EXCEPT !.base_path = <<"root", NodeNames[i]>>,
                                   !.balance = balance],
            KeySteps(account_key_type))

(***************************************************************************)
(* The chainspec document: the keys the handlers read and write.  A        *)
(* section that the JSON document does not hold has present = FALSE.       *)
(***************************************************************************)
Raised(kind, data) == [err |-> kind, data |-> data]
Ok(data) == [err |-> "", data |-> data]

\* mutant: the unit is always 10 ** 18, whatever tokenDecimals is
inject_validator_balances_default_unit(data, nodes, account_key_type, removeExisting, tokenDecimals, amount, includeNodeBalances) ==
    IF ~data.balances.present THEN Raised("KeyError", data)
    ELSE IF tokenDecimals.t # "int" THEN Raised("TypeError", data)
    ELSE
    LET unit == Pow10(DEFAULT_TOKEN_DECIMALS)
        vkey == get_vkey(account_key_type)
        existing == IF removeExisting THEN <<>> ELSE data.balances.balances
        current_amount(node) ==
            IF includeNodeBalances /\ node.balance.t # "none"
            THEN node.balance.i ELSE amount
        entry(node) == <<node[vkey], MulSmall(unit, current_amount(node))>>
    IN  IF \E k \in 1..Len(nodes) : nodes[k][vkey] = Absent
        THEN Raised("KeyError", data)
        ELSE Ok([data EXCEPT !.balances.balances =
                    existing \o [k \in 1..Len(nodes) |-> entry(nodes[k])]])

inject_validator_balances(data, nodes, account_key_type, removeExisting, tokenDecimals, amount, includeNodeBalances) ==
    IF ~data.balances.present THEN Raised("KeyError", data)
    ELSE IF tokenDecimals.t # "int" THEN Raised("TypeError", data)
    ELSE
    LET unit == Pow10(tokenDecimals.i)
        vkey == get_vkey(account_key_type)
        existing == IF removeExisting THEN <<>> ELSE data.balances.balances
        current_amount(node) ==
            IF includeNodeBalances /\ node.balance.t # "none"
            THEN node.balance.i ELSE amount
        entry(node) == <<node[vkey], MulSmall(unit, current_amount(node))>>
    IN  IF \E k \in 1..Len(nodes) : nodes[k][vkey] = Absent
        THEN Raised("KeyError", data)
        ELSE Ok([data EXCEPT !.balances.balances =
                    existing \o [k \in 1..Len(nodes) |-> entry(nodes[k])]])

RECURSIVE HexEntries(_, _, _)
HexEntries(normalized_hex, unit, balances) ==
    IF normalized_hex = <<>> THEN balances
    ELSE LET address == Head(normalized_hex)[1]
             balance_amount == Head(normalized_hex)[2]
         IN  IF ~validate_hex_address(address)
             THEN HexEntries(Tail(normalized_hex), unit, balances)
             ELSE HexEntries(Tail(normalized_hex), unit,
                     Append(balances, <<Lower(address), MulSmall(unit, balance_amount)>>))

RECURSIVE Ss58Entries(_, _, _)
Ss58Entries(ss58, unit, balances) ==
    IF ss58 = <<>> THEN balances
    ELSE LET address == Head(ss58)[1]
             balance_amount == Head(ss58)[2]
         IN  IF ~validate_ss58_address(address)
             THEN Ss58Entries(Tail(ss58), unit, balances)
             ELSE Ss58Entries(Tail(ss58), unit,
                     Append(balances, <<address, MulSmall(unit, balance_amount)>>))

inject_config_balances(data, config) ==
    IF ~config.network.present \/ ~config.network.balances.present THEN Ok(data)
    ELSE IF ~data.balances.present THEN Raised("KeyError", data)
    ELSE IF ~data.properties.present THEN Raised("KeyError", data)
    ELSE
    LET balance_config == config.network.balances
        tokenDecimals == IF data.properties.tokenDecimals.t = "none"
                         THEN IntV(DEFAULT_TOKEN_DECIMALS)
                         ELSE data.properties.tokenDecimals
    IN  IF tokenDecimals.t # "int" THEN Raised("TypeError", data)
        ELSE LET unit == Pow10(tokenDecimals.i)
                 afterHex == HexEntries(normalize_hex_addresses(balance_config.hex),
                                        unit, data.balances.balances)
                 afterSs58 == Ss58Entries(balance_config.ss58, unit, afterHex)
             IN  Ok([data EXCEPT !.balances.balances = afterSs58])

apply_config_customizations(data, config) ==
    IF ~config.apply_chainspec_customizations THEN Ok(data)
    ELSE IF ~data.properties.present THEN Raised("KeyError", data)
    ELSE
    LET fetched_tokenSymbol == data.properties.tokenSymbol
        fetched_tokenDecimals == data.properties.tokenDecimals
        network == config.network
    IN  IF ~network.present THEN Ok(data)
        ELSE
        LET tokenDecimals == PyOr(network.token_decimal, fetched_tokenSymbol)
            tokenSymbol == PyOr(network.token_symbol, fetched_tokenDecimals)
            withProps == [data EXCEPT
                !.properties.tokenDecimals = PyOr(tokenDecimals, IntV(DEFAULT_TOKEN_DECIMALS)),
                !.properties.tokenSymbol = PyOr(tokenSymbol, StrV("DOT"))]
            injected == inject_validator_balances(withProps, config.nodes,
                            config.account_key_type, network.remove_existing_balances,
                            tokenDecimals, DEFAULT_AMOUNT, TRUE)
        IN  IF injected.err # "" THEN injected
            ELSE inject_config_balances(injected.data, config)

(***************************************************************************)
(* The handlers that edit chainspec.json.  Each takes the file's content   *)
(* and returns what the handler leaves: "written" (the file was            *)
(* rewritten), "swallowed" (a KeyError was printed and the handler         *)
(* returned without writing) or "raised" (an exception left the handler).  *)
(***************************************************************************)
Written(data) == [status |-> "written", err |-> "", file |-> data]
Swallowed(file) == [status |-> "swallowed", err |-> "KeyError", file |-> file]
RaisedOut(err, file) == [status |-> "raised", err |-> err, file |-> file]

\* the end of a try/except KeyError block around `r`, then write_chainspec
ExceptKeyError(r, file) ==
    IF r.err = "" THEN Written(r.data)
    ELSE IF r.err = "KeyError" THEN Swallowed(file)
    ELSE RaisedOut(r.err, file)

HasKeys(nodes, keys) ==
    \A k \in 1..Len(nodes) : \A key \in keys : nodes[k][key] # Absent

\* mutant: the existing session keys and validators are kept, not removed
edit_vs_ss_authorities_append(file, nodes, account_key_type) ==
    LET vkey == get_vkey(account_key_type)
    IN  IF ~file.session.present \/ ~file.validatorSet.present
           \/ ~HasKeys(nodes, {vkey, "aura_ss58", "grandpa_ss58"})
        THEN RaisedOut("KeyError", file)
        ELSE Written([file EXCEPT
                !.session.keys = file.session.keys \o [k \in 1..Len(nodes) |->
                    <<nodes[k][vkey], nodes[k][vkey],
                      <<"aura", nodes[k].aura_ss58, "grandpa", nodes[k].grandpa_ss58>>>>],
                !.validatorSet.initialValidators = file.validatorSet.initialValidators
                    \o [k \in 1..Len(nodes) |-> nodes[k][vkey]]])

edit_vs_ss_authorities(file, nodes, account_key_type) ==
    LET vkey == get_vkey(account_key_type)
    IN  IF ~file.session.present \/ ~file.validatorSet.present
           \/ ~HasKeys(nodes, {vkey, "aura_ss58", "grandpa_ss58"})
        THEN RaisedOut("KeyError", file)
        ELSE Written([file EXCEPT
                !.session.keys = [k \in 1..Len(nodes) |->
                    <<nodes[k][vkey], nodes[k][vkey],
                      <<"aura", nodes[k].aura_ss58, "grandpa", nodes[k].grandpa_ss58>>>>],
                !.validatorSet.initialValidators = [k \in 1..Len(nodes) |-> nodes[k][vkey]]])

AuraAuthorities(nodes) == [k \in 1..Len(nodes) |-> nodes[k].aura_ss58]
BabeAuthorities(nodes) == [k \in 1..Len(nodes) |-> <<nodes[k].babe_ss58, 1>>]
GranAuthorities(nodes) == [k \in 1..Len(nodes) |-> <<nodes[k].grandpa_ss58, 1>>]

enable_poa(file, config) ==
    IF ~HasKeys(config.nodes, {"aura_ss58", "grandpa_ss58"})
       \/ ~file.aura.present \/ ~file.grandpa.present
    THEN Swallowed(file)
    ELSE LET data == [file EXCEPT !.aura.authorities = AuraAuthorities(config.nodes),
                                  !.grandpa.authorities = GranAuthorities(config.nodes)]
         IN  ExceptKeyError(apply_config_customizations(data, config), file)

enable_poa_with_validator_set(file, config) ==
    LET edited == edit_vs_ss_authorities(file, config.nodes, config.account_key_type)
        loaded == edited.file
    IN  IF edited.status = "raised" THEN edited
        ELSE IF ~loaded.aura.present \/ ~loaded.grandpa.present \/ ~loaded.properties.present
        THEN Swallowed(loaded)
        ELSE
        LET data == [loaded EXCEPT !.aura.authorities = AuraAuthorities(config.nodes),
                                   !.grandpa.authorities = GranAuthorities(config.nodes)]
            tokenDecimals == IF data.properties.tokenDecimals.t = "none"
                             THEN IntV(DEFAULT_TOKEN_DECIMALS)
                             ELSE data.properties.tokenDecimals
            injected == inject_validator_balances(data, config.nodes,
                            config.account_key_type, TRUE, tokenDecimals,
                            POA_VS_AMOUNT, FALSE)
        IN  IF injected.err # "" THEN ExceptKeyError(injected, loaded)
            ELSE ExceptKeyError(apply_config_customizations(injected.data, config), loaded)

\* lines 339-349 of init_bootnodes_chainspec: the bootNodes list
BootNode(ip, port, peer) == <<"/ip4/", ip, "/tcp/", port, "/p2p/", peer>>

SetBootnodes(c, nodes, exec_type) ==
    IF exec_type = "bin"
    THEN IF ~HasKeys(nodes, {"libp2p_public_key"}) THEN Raised("KeyError", c)
         ELSE Ok([c EXCEPT !.bootNodes = [k \in 1..Len(nodes) |->
                    BootNode(<<"127.0.0.1">>, nodes[k].p2p_port, nodes[k].libp2p_public_key)]])
    ELSE IF ~HasKeys(nodes, {"docker_ip", "libp2p_public_key"}) THEN Raised("KeyError", c)
         ELSE Ok([c EXCEPT !.bootNodes = [k \in 1..Len(nodes) |->
                    BootNode(nodes[k].docker_ip, P2P_DEFAULT, nodes[k].libp2p_public_key)]])

\* `c` is the template's JSON, or the tool's build-spec output
init_bootnodes_chainspec(c, config) ==
    LET booted == SetBootnodes(c, config.nodes, config.exec_type)
        chainspec_config == config.network.chain
        named == IF config.apply_chainspec_customizations /\ chainspec_config.chain_name # ""
                 THEN [booted.data EXCEPT !.name = chainspec_config.chain_name]
                 ELSE booted.data
        ided == IF config.apply_chainspec_customizations /\ chainspec_config.chain_id # ""
                THEN [named EXCEPT !.id = chainspec_config.chain_id]
                ELSE named
        typed == IF config.apply_chainspec_customizations /\ chainspec_config.chain_type # ""
                 THEN [ided EXCEPT !.chainType = chainspec_config.chain_type]
                 ELSE ided
    IN  IF booted.err # "" THEN RaisedOut(booted.err, c)
        ELSE Written(typed)

BabeDefaults(data) ==
    [data EXCEPT
        !.babe.epochDuration = IF data.babe.epochDuration.t = "none"
                               THEN IntV(BABE_EPOCH_DURATION) ELSE data.babe.epochDuration,
        !.babe.epochConfig = IF data.babe.epochConfig = "unset"
                             THEN "PrimaryAndSecondaryPlainSlots" ELSE data.babe.epochConfig]

enable_babe_grandpa(file, config) ==
    IF ~HasKeys(config.nodes, {"babe_ss58", "grandpa_ss58"})
       \/ ~file.babe.present \/ ~file.grandpa.present
    THEN Swallowed(file)
    ELSE LET data == BabeDefaults(
                        [file EXCEPT !.babe.authorities = BabeAuthorities(config.nodes),
                                     !.grandpa.authorities = GranAuthorities(config.nodes)])
         IN  ExceptKeyError(apply_config_customizations(data, config), file)

configure_sessions_for_staking(data, nodes, account_key_type) ==
    LET vkey == get_vkey(account_key_type)
    IN  IF ~HasKeys(nodes, {vkey, "babe_ss58", "grandpa_ss58"}) THEN Raised("KeyError", data)
        ELSE Ok([data EXCEPT
                !.session.present = TRUE,
                !.session.keys = [k \in 1..Len(nodes) |->
                    <<nodes[k][vkey], nodes[k][vkey],
                      <<"babe", nodes[k].babe_ss58, "grandpa", nodes[k].grandpa_ss58>>>>]])

Max(a, b) == IF a >= b THEN a ELSE b

configure_staking_genesis(data, nodes, account_key_type) ==
    LET vkey == get_vkey(account_key_type)
        stake_amount == MulSmall(Pow10(STAKE_DECIMALS), STAKE_TOKENS)
    IN  IF ~HasKeys(nodes, {vkey}) THEN Raised("KeyError", data)
        ELSE Ok([data EXCEPT !.staking =
                [present |-> TRUE,
                 validatorCount |-> Len(nodes),
                 minimumValidatorCount |-> Max(1, Len(nodes) \div 2),
                 invulnerables |-> <<>>,
                 forceEra |-> "NotForcing",
                 slashRewardFraction |-> PERBILL,
                 canceledSlashPayout |-> PERBILL,
                 historyDepth |-> HISTORY_DEPTH,
                 stakers |-> [k \in 1..Len(nodes) |->
                    <<nodes[k][vkey], nodes[k][vkey], stake_amount, "Validator">>]]])

enable_babe_grandpa_with_staking(file, config) ==
    IF ~HasKeys(config.nodes, {"babe_ss58", "grandpa_ss58"})
       \/ ~file.babe.present \/ ~file.grandpa.present
    THEN Swallowed(file)
    ELSE
    LET data == BabeDefaults(
                    [file EXCEPT !.babe.authorities = BabeAuthorities(config.nodes),
                                 !.grandpa.authorities = GranAuthorities(config.nodes)])
        sessions == configure_sessions_for_staking(data, config.nodes, config.account_key_type)
        staking == configure_staking_genesis(sessions.data, config.nodes,
                                             config.account_key_type)
        tokenDecimals == IF staking.data.properties.tokenDecimals.t = "none"
                         THEN IntV(DEFAULT_TOKEN_DECIMALS)
                         ELSE staking.data.properties.tokenDecimals
        injected == inject_validator_balances(staking.data, config.nodes,
                        config.account_key_type, TRUE, tokenDecimals, STAKING_AMOUNT, FALSE)
    IN  IF sessions.err # "" THEN ExceptKeyError(sessions, file)
        ELSE IF staking.err # "" THEN ExceptKeyError(staking, file)
        ELSE IF ~staking.data.properties.present THEN Swallowed(file)
        ELSE IF injected.err # "" THEN ExceptKeyError(injected, file)
        ELSE ExceptKeyError(apply_config_customizations(injected.data, config), file)

enable_dev_mode(file, config) ==
    IF config.nodes = <<>> THEN Swallowed(file)
    ELSE IF ~HasKeys(<<config.nodes[1]>>, {"aura_ss58", "grandpa_ss58"})
            \/ ~file.aura.present \/ ~file.grandpa.present
    THEN Swallowed(file)
    ELSE LET first_node == config.nodes[1]
             data == [file EXCEPT
                        !.aura.authorities = <<first_node.aura_ss58>>,
                        !.grandpa.authorities = <<<<first_node.grandpa_ss58, 1>>>>,
                        !.properties.present = TRUE,
                        !.properties.isEthereum = "false"]
         IN  ExceptKeyError(apply_config_customizations(data, config), file)

\* the handler configure_network_consensus calls for a choice of the prompt
ConsensusChoices == {"1", "2", "3", "4", "5"}

ConsensusHandler(choice, file, config) ==
    CASE choice = "1" -> enable_poa(file, config)
      [] choice = "2" -> enable_poa_with_validator_set(file, config)
      [] choice = "3" -> enable_babe_grandpa(file, config)
      [] choice = "4" -> enable_babe_grandpa_with_staking(file, config)
      [] choice = "5" -> enable_dev_mode(file, config)

ConsensusKeyTypes(choice) ==
    IF choice \in {"3", "4"} THEN <<"babe", "grandpa">> ELSE <<"aura", "grandpa">>

(***************************************************************************)
(* Inputs: base documents (a template file, or the tool's build-spec       *)
(* output) and configurations (parse_args).                                *)
(***************************************************************************)
StaleKey == <<"stale", "mallory">>
StaleBalance == <<StaleKey, MulSmall(Pow10(3), 9)>>

Sections == {"aura", "grandpa", "babe", "session", "validatorSet", "balances", "properties"}

MkDoc(missing, tokenDecimals, tokenSymbol, stale) ==
    [name |-> "Local Testnet",
     id |-> "local_testnet",
     chainType |-> "Local",
     bootNodes |-> IF stale THEN <<BootNode(<<"10.0.0.9">>, 30999, StaleKey)>> ELSE <<>>,
     properties |-> [present |-> "properties" \notin missing,
                     tokenDecimals |-> IF "properties" \in missing THEN None ELSE tokenDecimals,
                     tokenSymbol |-> IF "properties" \in missing THEN None ELSE tokenSymbol,
                     isEthereum |-> "unset"],
     aura |-> [present |-> "aura" \notin missing,
               authorities |-> IF stale /\ "aura" \notin missing THEN <<StaleKey>> ELSE <<>>],
     grandpa |-> [present |-> "grandpa" \notin missing,
                  authorities |-> IF stale /\ "grandpa" \notin missing
                                  THEN <<<<StaleKey, 1>>>> ELSE <<>>],
     babe |-> [present |-> "babe" \notin missing,
               authorities |-> IF stale /\ "babe" \notin missing
                               THEN <<<<StaleKey, 1>>>> ELSE <<>>,
               epochDuration |-> None,
               epochConfig |-> "unset"],
     session |-> [present |-> "session" \notin missing,
                  keys |-> IF stale /\ "session" \notin missing
                           THEN <<<<StaleKey, StaleKey,
                                    <<"aura", StaleKey, "grandpa", StaleKey>>>>>>
                           ELSE <<>>],
     validatorSet |-> [present |-> "validatorSet" \notin missing,
                       initialValidators |-> IF stale /\ "validatorSet" \notin missing
                                             THEN <<StaleKey>> ELSE <<>>],
     balances |-> [present |-> "balances" \notin missing,
                   balances |-> IF stale /\ "balances" \notin missing
                                THEN <<StaleBalance>> ELSE <<>>],
     staking |-> [present |-> FALSE,
                  validatorCount |-> 0,
                  minimumValidatorCount |-> 0,
                  invulnerables |-> <<>>,
                  forceEra |-> "",
                  slashRewardFraction |-> 0,
                  canceledSlashPayout |-> 0,
                  historyDepth |-> 0,
                  stakers |-> <<>>]]

DocDecimals == {None, IntV(12)}
DocSymbols == {None, StrV("UNIT")}

\* complete documents, and documents that lack one section
BaseDocs ==
    {MkDoc({}, d, y, stale) : d \in DocDecimals, y \in DocSymbols, stale \in BOOLEAN}
    \cup {MkDoc({sec}, IntV(12), StrV("UNIT"), TRUE) : sec \in Sections}

GoodHex == <<"0", "x">> \o Rep("a", HEX_ADDRESS_LEN)
UpperHex == <<"0", "X">> \o Rep("A", HEX_ADDRESS_LEN)
ShortHex == <<"0", "x">> \o Rep("a", HEX_ADDRESS_LEN - 1)
GoodSs58 == Rep("5", SS58_MAX_LEN)
BadSs58 == Rep("0", SS58_MAX_LEN)

(***************************************************************************)
(* chainspec.py: the value of --chainspec.  A template file is what the    *)
(* path names: no file, a file that is not JSON, or a JSON object with     *)
(* some of the keys the loader looks for and the sections of `data`.       *)
(***************************************************************************)
TopKeys == {"name", "id", "genesis", "runtimeGenesis"}

TemplateFile(keys, data) == [kind |-> "json", keys |-> keys, data |-> data]
NoTemplate == [kind |-> "none", keys |-> {}, data |-> MkDoc(Sections, None, None, FALSE)]

Chainspec_validate_path(template) ==
    IF template.kind \notin {"json", "bad_json"}
    THEN Exc("ValueError", <<<<"is not a valid file path">>>>)
    ELSE IF template.kind = "bad_json"
    THEN Exc("ValueError", <<<<"Invalid JSON in chainspec file">>>>)
    ELSE IF {"name", "id"} \ template.keys # {}
    THEN Exc("ValueError", <<<<"Chainspec missing required fields: ">>>>)
    ELSE IF "genesis" \notin template.keys \/ "runtimeGenesis" \notin template.keys
    THEN Exc("ValueError", <<<<"Chainspec missing genesis.runtimeGenesis configuration">>>>)
    ELSE Returned([type |-> "path", template |-> template])

\* v: None, a string, or the path of a template
Chainspec_parse_value(v) ==
    IF v.t = "none" THEN Returned([type |-> "local", template |-> NoTemplate])
    ELSE IF v.t = "str" /\ Lower(v.s) = <<"l", "o", "c", "a", "l">>
    THEN Returned([type |-> "local", template |-> NoTemplate])
    ELSE IF v.t = "str" /\ Lower(v.s) = <<"d", "e", "v">>
    THEN Returned([type |-> "dev", template |-> NoTemplate])
    ELSE Chainspec_validate_path(v.template)

\* the templates a caller may supply: complete, or lacking one section
TemplateDocs ==
    {MkDoc({}, IntV(12), StrV("UNIT"), FALSE)}
    \cup {MkDoc({sec}, IntV(12), StrV("UNIT"), TRUE) :
            sec \in {"aura", "session", "balances", "properties"}}

Templates ==
    {[kind |-> "not_file", keys |-> {}, data |-> NoTemplate.data],
     [kind |-> "bad_json", keys |-> {}, data |-> NoTemplate.data]}
    \cup {TemplateFile(TopKeys \ {k}, MkDoc({}, IntV(12), StrV("UNIT"), FALSE)) : k \in TopKeys}
    \cup {TemplateFile(TopKeys, d) : d \in TemplateDocs}

ChainspecNone == [t |-> "none", s |-> <<>>, template |-> NoTemplate]

ChainspecValues ==
    {ChainspecNone,
     [t |-> "str", s |-> <<"l", "o", "c", "a", "l">>, template |-> NoTemplate],
     [t |-> "str", s |-> <<"D", "e", "v">>, template |-> NoTemplate]}
    \cup {[t |-> "str", s |-> <<"t", "e", "m", "p", "l", "a", "t", "e", ".", "j", "s", "o", "n">>,
           template |-> tp] : tp \in Templates}

NoBalances == [present |-> FALSE, hex |-> <<>>, ss58 |-> <<>>]
BalanceConfigs ==
    {NoBalances,
     [present |-> TRUE,
      hex |-> <<<<GoodHex, 3>>, <<ShortHex, 4>>>>,
      ss58 |-> <<<<BadSs58, 5>>, <<GoodSs58, 2>>>>]}

NoNetwork ==
    [present |-> FALSE,
     chain |-> [chain_name |-> "", chain_id |-> "", chain_type |-> ""],
     token_symbol |-> None,
     token_decimal |-> None,
     remove_existing_balances |-> FALSE,
     balances |-> NoBalances]

NetworkConfigs ==
    {[present |-> TRUE,
      chain |-> [chain_name |-> "My Chain", chain_id |-> "my_chain", chain_type |-> "Live"],
      token_symbol |-> y,
      token_decimal |-> d,
      remove_existing_balances |-> r,
      balances |-> b] :
        y \in {None, StrV("TKN")}, d \in {None, IntV(6)}, r \in BOOLEAN,
        b \in BalanceConfigs}

ExecTypes == {"bin", "docker"}

\* the nodes after key generation; `balance` is what the config file gave
KeyedNodes(n, account_key_type, balance) ==
    [k \in 1..n |-> KeyedNode(k, account_key_type, balance)]

MkConfig(exec_type, account_key_type, network, nodes) ==
    [exec_type |-> exec_type,
     account_key_type |-> account_key_type,
     apply_chainspec_customizations |-> network.present,
     network |-> network,
     nodes |-> nodes,
     interactive |-> FALSE,
     run_network |-> FALSE,
     clean |-> FALSE,
     poa |-> FALSE,
     chainspec |-> "local",
     template |-> NoTemplate,
     raw_chainspec |-> <<>>]

\* without --config: the default nodes, no [network]; with it: nodes with a
\* balance field and a [network] section
KeyedConfigs ==
    {MkConfig(e, a, NoNetwork, KeyedNodes(NumNodes, a, None)) :
        e \in ExecTypes, a \in AccountKeyTypes}
    \cup {MkConfig(e, a, nw, KeyedNodes(NumNodes, a, b)) :
        e \in ExecTypes, a \in AccountKeyTypes, nw \in NetworkConfigs,
        b \in {None, IntV(0), IntV(7)}}

(***************************************************************************)
(* State.                                                                  *)
(*   config     the CliConfig (nodes, backend, account type, [network])    *)
(*   file       ROOT_DIR/chainspec.json: whether it exists, and its JSON   *)
(*   prevFile   chainspec.json as it was before the last handler ran       *)
(*   stageLog   the handlers that ran on chainspec.json, with how each     *)
(*              ended                                                      *)
(* The bootstrap, main():                                                  *)
(*   bootPc     the stage main() is at, "returned" or "failed" (an         *)
(*              exception left main), "none" when main() is not modelled   *)
(*   bootLog    the stages begun and completed, in order                   *)
(*   root       ROOT_DIR: absent, a directory or a file, and its entries   *)
(*   snapshot   the content of ROOT_DIR/pysubnet.json                      *)
(*   progress   the node and the key the loop of the stage is at           *)
(*   keystore   the key types inserted into each node's keystore, the      *)
(*              chain id directory it is under, and the `key insert`       *)
(*              commands that were run for the node                        *)
(*   key_types  the key types configure_network_consensus returned         *)
(*   probe      what the tool answered to the command of                   *)
(*              SubstrateType.validate                                     *)
(* The supervisor (class Substrate) and what it started:                   *)
(*   supState   Idle, Starting, Running, Stopping, Closing (the loop over  *)
(*              open_files in stop_network), Stopped (start_network        *)
(*              returned) or Aborted (an exception left start_network)     *)
(*   supIdx     the node the current loop is at                            *)
(*   supPhase   where _cleanup_node is for that node                       *)
(*   node_procs, running_nodes, running_containers, open_files             *)
(*              the lists of the code (node indices, handle names)         *)
(*   procs      the operating system's view of each node process           *)
(*   handles    each node's two log-file handles                           *)
(*   containers the docker daemon's view of each node container            *)
(* One call of a function of the program on its own:                       *)
(*   call       the function called and its arguments                      *)
(*   result     what it returned, or the exception it raised               *)
(***************************************************************************)
VARIABLES config, file, prevFile, stageLog,
          bootPc, bootLog, root, snapshot, progress, keystore, key_types, probe,
          supState, supIdx, supPhase, node_procs, running_nodes,
          running_containers, open_files, procs, handles, containers, launched,
          call, result

chainVars == <<config, file, prevFile, stageLog>>
bootVars == <<bootPc, bootLog, root, snapshot, progress, keystore, key_types, probe>>
supVars == <<supState, supIdx, supPhase, node_procs, running_nodes,
             running_containers, open_files, procs, handles, containers, launched>>
vars == <<config, file, prevFile, stageLog,
          bootPc, bootLog, root, snapshot, progress, keystore, key_types, probe,
          supState, supIdx, supPhase, node_procs, running_nodes,
          running_containers, open_files, procs, handles, containers, launched,
          call, result>>
callVars == <<call, result>>

\* no function has been called
NoCall ==
    /\ call = [fn |-> "none"]
    /\ result = [err |-> ""]

NoFile == [exists |-> FALSE, data |-> MkDoc(Sections, None, None, FALSE)]
FileOf(data) == [exists |-> TRUE, data |-> data]

(***************************************************************************)
(* The supervisor: Substrate.start_network and Substrate.stop_network.     *)
(***************************************************************************)
NoProc == [state |-> "none", ignoresTerm |-> FALSE, termSent |-> FALSE,
           killSent |-> FALSE, diedBeforeStop |-> FALSE]
NoHandles == [log |-> "unopened", err |-> "unopened"]

\* generate_raw_chainspec: ROOT_DIR joined with "raw_chainspec.json"
RawChainspecPath == <<"root", "raw_chainspec.json">>

\* os.path.dirname and os.path.basename of a path of components
dirname(path) == SubSeq(path, 1, Len(path) - 1)
basename(path) == path[Len(path)]

\* no command has been issued for the node
NotLaunched == [chain |-> <<>>, volume |-> <<>>]

\* mutant: the node is given the file's name, as a container is
BinCommand_Basename(cfg) == [chain |-> <<basename(cfg.raw_chainspec)>>, volume |-> <<>>]

\* _start_network_bin: the --chain argument of the node's command line
BinCommand(cfg) == [chain |-> cfg.raw_chainspec, volume |-> <<>>]

\* _start_network_containers: the --chain argument of the container's
\* command, and the volume that holds the raw chainspec
ContainerCommand(cfg) ==
    [chain |-> <<"/chainspec", basename(cfg.raw_chainspec)>>,
     volume |-> <<dirname(cfg.raw_chainspec), "/chainspec", "ro">>]

\* Substrate.__init__, and nothing started yet
SupIdle ==
    /\ supState = "Idle"
    /\ supIdx = 0
    /\ supPhase = "none"
    /\ node_procs = <<>>
    /\ running_nodes = <<>>
    /\ running_containers = <<>>
    /\ open_files = <<>>
    /\ procs = [k \in 1..NumNodes |-> NoProc]
    /\ handles = [k \in 1..NumNodes |-> NoHandles]
    /\ containers = [k \in 1..NumNodes |-> "none"]
    /\ launched = [k \in 1..NumNodes |-> NotLaunched]

\* start_network is called: the loop of _start_network_bin or
\* _start_network_containers begins
SupStartNetwork ==
    /\ supState = "Idle"
    /\ supState' = "Starting"
    /\ supIdx' = 1
    /\ UNCHANGED <<supPhase, node_procs, running_nodes, running_containers,
                   open_files, procs, handles, containers, launched>>

\* one iteration of the loop of _start_network_bin: the two open() calls,
\* open_files.extend, Popen, node_procs.append; any of the calls may raise
SupSpawnNode ==
    /\ supState = "Starting"
    /\ config.exec_type = "bin"
    /\ supIdx <= Len(config.nodes)
    /\ \E outcome \in {"ok", "open_log_fails", "open_err_fails", "popen_fails"},
          ignores \in BOOLEAN :
        /\ handles' = [handles EXCEPT ![supIdx] =
                [log |-> IF outcome = "open_log_fails" THEN "unopened" ELSE "open",
                 err |-> IF outcome \in {"open_log_fails", "open_err_fails"}
                         THEN "unopened" ELSE "open"]]
        /\ open_files' = IF outcome \in {"ok", "popen_fails"}
                         THEN open_files \o <<<<supIdx, "log">>, <<supIdx, "err">>>>
                         ELSE open_files
        /\ IF outcome = "ok"
           THEN /\ procs' = [procs EXCEPT ![supIdx] =
                        [NoProc EXCEPT !.state = "running", !.ignoresTerm = ignores]]
                /\ node_procs' = Append(node_procs, supIdx)
                /\ launched' = [launched EXCEPT ![supIdx] = BinCommand(config)]
                /\ supIdx' = supIdx + 1
                /\ supState' = supState
           ELSE /\ supState' = "Aborted"
                /\ UNCHANGED <<procs, node_procs, supIdx, launched>>
    /\ UNCHANGED <<supPhase, running_nodes, running_containers, containers>>

\* after the loop: self.running_nodes = node_procs, then the sleep loop
SupAllSpawned ==
    /\ supState = "Starting"
    /\ config.exec_type = "bin"
    /\ supIdx > Len(config.nodes)
    /\ running_nodes' = node_procs
    /\ supState' = "Running"
    /\ UNCHANGED <<supIdx, supPhase, node_procs, running_containers, open_files,
                   procs, handles, containers, launched>>

\* one iteration of the loop of _start_network_containers
SupRunContainer ==
    /\ supState = "Starting"
    /\ config.exec_type = "docker"
    /\ supIdx <= Len(config.nodes)
    /\ \E ok \in BOOLEAN :
        IF ok
        THEN /\ containers' = [containers EXCEPT ![supIdx] = "running"]
             /\ running_containers' = Append(running_containers, supIdx)
             /\ launched' = [launched EXCEPT ![supIdx] = ContainerCommand(config)]
             /\ supIdx' = supIdx + 1
             /\ supState' = supState
        ELSE /\ supState' = "Aborted"
             /\ UNCHANGED <<containers, running_containers, supIdx, launched>>
    /\ UNCHANGED <<supPhase, node_procs, running_nodes, open_files, procs, handles>>

SupAllContainersRun ==
    /\ supState = "Starting"
    /\ config.exec_type = "docker"
    /\ supIdx > Len(config.nodes)
    /\ supState' = "Running"
    /\ UNCHANGED <<supIdx, supPhase, node_procs, running_nodes, running_containers,
                   open_files, procs, handles, containers, launched>>

\* mutant: the sleep loop is outside the try, the interrupt is not caught
KeyboardInterrupt_Uncaught ==
    /\ supState \in {"Starting", "Running", "Stopping", "Closing"}
    /\ supState' = "Aborted"
    /\ UNCHANGED <<supIdx, supPhase>>
    /\ UNCHANGED <<node_procs, running_nodes, running_containers, open_files,
                   procs, handles, containers, launched>>

\* KeyboardInterrupt: outside the try of start_network (while Starting) and
\* inside its except clause (Stopping, Closing) it leaves start_network; in
\* the sleep loop it is caught and stop_network is called
KeyboardInterrupt ==
    /\ supState \in {"Starting", "Running", "Stopping", "Closing"}
    /\ IF supState = "Running"
       THEN /\ supState' = "Stopping"
            /\ supIdx' = 1
            /\ supPhase' = "terminate"
       ELSE /\ supState' = "Aborted"
            /\ UNCHANGED <<supIdx, supPhase>>
    /\ UNCHANGED <<node_procs, running_nodes, running_containers, open_files,
                   procs, handles, containers, launched>>

\* a node process exits by itself: it crashed, or it handled SIGTERM
ProcessExits ==
    \E k \in 1..NumNodes :
        /\ procs[k].state = "running"
        /\ supState \in {"Starting", "Running", "Stopping", "Closing"}
        /\ procs[k].termSent => ~procs[k].ignoresTerm
        /\ procs' = [procs EXCEPT ![k].state = "zombie",
                                  ![k].diedBeforeStop = ~procs[k].termSent]
        /\ UNCHANGED <<supState, supIdx, supPhase, node_procs, running_nodes,
                       running_containers, open_files, handles, containers, launched>>

\* a container exits by itself; it was run with remove=True
ContainerExits ==
    \E k \in 1..NumNodes :
        /\ containers[k] = "running"
        /\ supState \in {"Starting", "Running", "Stopping"}
        /\ containers' = [containers EXCEPT ![k] = "removed"]
        /\ UNCHANGED <<supState, supIdx, supPhase, node_procs, running_nodes,
                       running_containers, open_files, procs, handles, launched>>

StoppingNode == running_nodes[supIdx]

\* _cleanup_node: process.terminate(); Popen polls first, and signals only a
\* process that has not exited
SupTerminate ==
    /\ supState = "Stopping"
    /\ config.exec_type = "bin"
    /\ supIdx <= Len(running_nodes)
    /\ supPhase = "terminate"
    /\ procs' = [procs EXCEPT ![StoppingNode] =
            IF @.state = "running" THEN [@ EXCEPT !.termSent = TRUE]
            ELSE [@ EXCEPT !.state = "reaped"]]
    /\ supPhase' = "wait"
    /\ UNCHANGED <<supState, supIdx, node_procs, running_nodes, running_containers,
                   open_files, handles, containers, launched>>

\* mutant: a process that outlives the grace period is left alone
SupWait_NoEscalation ==
    /\ supState = "Stopping"
    /\ config.exec_type = "bin"
    /\ supIdx <= Len(running_nodes)
    /\ supPhase = "wait"
    /\ IF procs[StoppingNode].state = "running"
       THEN /\ supPhase' = "close"
            /\ UNCHANGED procs
       ELSE /\ procs' = [procs EXCEPT ![StoppingNode].state = "reaped"]
            /\ supPhase' = "close"
    /\ UNCHANGED <<supState, supIdx, node_procs, running_nodes, running_containers,
                   open_files, handles, containers, launched>>

\* mutant: the kill follows the wait whether it timed out or not
SupWait_AlwaysKill ==
    /\ supState = "Stopping"
    /\ config.exec_type = "bin"
    /\ supIdx <= Len(running_nodes)
    /\ supPhase = "wait"
    /\ supPhase' = "kill"
    /\ UNCHANGED procs
    /\ UNCHANGED <<supState, supIdx, node_procs, running_nodes, running_containers,
                   open_files, handles, containers, launched>>

\* _cleanup_node: process.wait(timeout=2): the process is reaped if it has
\* exited, and TimeoutExpired is raised if it is still running
SupWait ==
    /\ supState = "Stopping"
    /\ config.exec_type = "bin"
    /\ supIdx <= Len(running_nodes)
    /\ supPhase = "wait"
    /\ IF procs[StoppingNode].state = "running"
       THEN /\ supPhase' = "kill"
            /\ UNCHANGED procs
       ELSE /\ procs' = [procs EXCEPT ![StoppingNode].state = "reaped"]
            /\ supPhase' = "close"
    /\ UNCHANGED <<supState, supIdx, node_procs, running_nodes, running_containers,
                   open_files, handles, containers, launched>>

\* except TimeoutExpired: process.kill()
SupKill ==
    /\ supState = "Stopping"
    /\ config.exec_type = "bin"
    /\ supIdx <= Len(running_nodes)
    /\ supPhase = "kill"
    /\ procs' = [procs EXCEPT ![StoppingNode] =
            IF @.state = "running" THEN [@ EXCEPT !.state = "zombie", !.killSent = TRUE]
            ELSE [@ EXCEPT !.state = "reaped"]]
    /\ supPhase' = "rewait"
    /\ UNCHANGED <<supState, supIdx, node_procs, running_nodes, running_containers,
                   open_files, handles, containers, launched>>

\* process.wait() after the kill
SupWaitKilled ==
    /\ supState = "Stopping"
    /\ config.exec_type = "bin"
    /\ supIdx <= Len(running_nodes)
    /\ supPhase = "rewait"
    /\ procs' = [procs EXCEPT ![StoppingNode].state = "reaped"]
    /\ supPhase' = "close"
    /\ UNCHANGED <<supState, supIdx, node_procs, running_nodes, running_containers,
                   open_files, handles, containers, launched>>

\* the end of _cleanup_node: log_file.close(), err_log_file.close()
SupCloseLogs ==
    /\ supState = "Stopping"
    /\ config.exec_type = "bin"
    /\ supIdx <= Len(running_nodes)
    /\ supPhase = "close"
    /\ handles' = [handles EXCEPT ![StoppingNode] = [log |-> "closed", err |-> "closed"]]
    /\ supIdx' = supIdx + 1
    /\ supPhase' = "terminate"
    /\ UNCHANGED <<supState, node_procs, running_nodes, running_containers,
                   open_files, procs, containers, launched>>

\* the end of _stop_network_bin: self.running_nodes = []
SupStopBinDone ==
    /\ supState = "Stopping"
    /\ config.exec_type = "bin"
    /\ supIdx > Len(running_nodes)
    /\ running_nodes' = <<>>
    /\ supState' = "Closing"
    /\ UNCHANGED <<supIdx, supPhase, node_procs, running_containers, open_files,
                   procs, handles, containers, launched>>

\* one iteration of the loop of _stop_network_containers: container.stop(),
\* with any Exception printed
SupStopContainer ==
    /\ supState = "Stopping"
    /\ config.exec_type = "docker"
    /\ supIdx <= Len(running_containers)
    /\ \E ok \in BOOLEAN :
        containers' = [containers EXCEPT ![running_containers[supIdx]] =
            IF @ = "running" /\ ok THEN "removed" ELSE @]
    /\ supIdx' = supIdx + 1
    /\ UNCHANGED <<supState, supPhase, node_procs, running_nodes, running_containers,
                   open_files, procs, handles, launched>>

\* the end of _stop_network_containers: self.running_containers = []
SupStopContainersDone ==
    /\ supState = "Stopping"
    /\ config.exec_type = "docker"
    /\ supIdx > Len(running_containers)
    /\ running_containers' = <<>>
    /\ supState' = "Closing"
    /\ UNCHANGED <<supIdx, supPhase, node_procs, running_nodes, open_files,
                   procs, handles, containers, launched>>

\* the end of stop_network: every file of open_files is closed, and
\* open_files = []; stop_network and then start_network return
SupCloseOpenFiles ==
    /\ supState = "Closing"
    /\ handles' = [k \in 1..NumNodes |->
            [log |-> IF \E n \in 1..Len(open_files) : open_files[n] = <<k, "log">>
                     THEN "closed" ELSE handles[k].log,
             err |-> IF \E n \in 1..Len(open_files) : open_files[n] = <<k, "err">>
                     THEN "closed" ELSE handles[k].err]]
    /\ open_files' = <<>>
    /\ supState' = "Stopped"
    /\ UNCHANGED <<supIdx, supPhase, node_procs, running_nodes, running_containers,
                   procs, containers, launched>>

(***************************************************************************)
(* The bootstrap: main().                                                  *)
(***************************************************************************)
NoProbe == [kind |-> "none", exit_ok |-> FALSE, output |-> <<>>]
NoProgress == [node |-> 0, step |-> 0]
EmptyKeystore ==
    [k \in 1..NumNodes |-> [keys |-> {}, chain |-> "", inserts |-> <<>>, reported |-> FALSE]]

\* main() is not running
BootNone ==
    /\ bootPc = "none"
    /\ bootLog = <<>>
    /\ root = [kind |-> "dir", entries |-> {}]
    /\ snapshot = <<>>
    /\ progress = NoProgress
    /\ keystore = EmptyKeystore
    /\ key_types = <<"aura", "grandpa">>
    /\ probe = NoProbe

\* the stages of main(), in the order of its statements
Stages == <<"root_dir", "substrate", "account", "setup_dirs", "generate_keys",
            "bootnodes", "consensus", "insert_keystore", "raw", "start_network",
            "returned">>

\* mutant: the keystore is filled before the chainspec is edited
NextStage_KeystoreFirst(stage) ==
    LET order == <<"root_dir", "substrate", "account", "setup_dirs", "generate_keys",
                   "insert_keystore", "bootnodes", "consensus", "raw", "start_network",
                   "returned">>
    IN  order[(CHOOSE k \in 1..Len(order) : order[k] = stage) + 1]

NextStage(stage) == Stages[(CHOOSE k \in 1..Len(Stages) : Stages[k] = stage) + 1]

Begun(stage) == <<stage, "start">>
Done(stage) == <<stage, "done">>

\* "Validate root-dir" and "Run --clean"
BootRootDir ==
    /\ bootPc = "root_dir"
    /\ LET made == IF root.kind = "absent" THEN [kind |-> "dir", entries |-> {}] ELSE root
       IN  IF made.kind # "dir"
           THEN /\ bootPc' = "failed"
                /\ bootLog' = Append(bootLog, Begun("root_dir"))
                /\ UNCHANGED <<root, file>>
           ELSE /\ bootPc' = NextStage("root_dir")
                /\ bootLog' = bootLog \o <<Begun("root_dir"), Done("root_dir")>>
                /\ root' = IF config.clean THEN [kind |-> "absent", entries |-> {}] ELSE made
                /\ file' = IF config.clean THEN NoFile ELSE file
    /\ UNCHANGED <<config, prevFile, stageLog, snapshot, progress, keystore, key_types,
                   probe, supVars>>

SourceKinds == {"binary", "directory", "not_executable", "image", "invalid"}

\* SubstrateType.validate for a source of the given kind, when the tool's
\* `key generate` exits as exit_ok says and prints `output`
validate(kind, exit_ok, output) ==
    IF kind \in {"directory", "not_executable", "invalid"}
    THEN [err |-> "ValueError", exec_type |-> "none"]
    ELSE IF ~exit_ok THEN [err |-> "Exception", exec_type |-> "none"]
    ELSE LET parsed == parse_subkey_output(output)
             pub == parsed.data.public_key
         IN  IF parsed.err # "" THEN [err |-> parsed.err, exec_type |-> "none"]
             ELSE IF pub = <<>> \/ ~is_valid_public_key(pub)
             THEN [err |-> "ValueError", exec_type |-> "none"]
             ELSE [err |-> "", exec_type |-> IF kind = "binary" THEN "bin" ELSE "docker"]

GoodPub == <<"0", "x">> \o Rep("a", PUBLIC_KEY_HEX_DIGITS)
ProbePubs ==
    {GoodPub,
     <<"0", "x">> \o Rep("A", PUBLIC_KEY_HEX_DIGITS),
     <<"0", "x">> \o Rep("a", PUBLIC_KEY_HEX_DIGITS - 1),
     <<"0", "x">> \o Rep("a", PUBLIC_KEY_HEX_DIGITS + 1),
     <<"0", "x">> \o Rep("a", PUBLIC_KEY_HEX_DIGITS - 1) \o <<"g">>,
     <<"0", "X">> \o Rep("a", PUBLIC_KEY_HEX_DIGITS),
     Rep("a", PUBLIC_KEY_HEX_DIGITS)}
ProbeOutputs ==
    {SubkeyOutput(<<"probe", "secret">>, pub, <<"probe", "ss58">>, {}) : pub \in ProbePubs}
    \cup {SubkeyOutput(<<"probe", "secret">>, GoodPub, <<"probe", "ss58">>, {part}) :
            part \in {"phrase", "seed", "hex", "hexvalue", "account", "ss58"}}
    \cup {<<>>}

\* "Validate SUBSTRATE": Substrate(source), the source being the default
\* ./substrate or the answer to the prompt
BootSubstrate ==
    /\ bootPc = "substrate"
    /\ \E kind \in SourceKinds, exit_ok \in BOOLEAN, output \in ProbeOutputs :
        LET r == validate(kind, exit_ok, output)
            ran == kind \in {"binary", "image"}
        IN  /\ probe' = [kind |-> kind, exit_ok |-> ran /\ exit_ok,
                         output |-> IF ran /\ exit_ok THEN output ELSE <<>>]
            /\ IF r.err # ""
               THEN /\ bootPc' = "failed"
                    /\ bootLog' = Append(bootLog, Begun("substrate"))
                    /\ UNCHANGED config
               ELSE /\ bootPc' = NextStage("substrate")
                    /\ bootLog' = bootLog \o <<Begun("substrate"), Done("substrate")>>
                    /\ config' = [config EXCEPT !.exec_type = r.exec_type]
    /\ UNCHANGED <<file, prevFile, stageLog, root, snapshot, progress, keystore,
                   key_types, supVars>>

\* "Interactive mode for account type"
BootAccount ==
    /\ bootPc = "account"
    /\ \E answer \in AccountKeyTypes :
        config' = [config EXCEPT !.account_key_type =
            IF config.account_key_type # "none" THEN @
            ELSE IF config.interactive THEN answer
            ELSE "AccountId20"]
    /\ bootPc' = NextStage("account")
    /\ bootLog' = bootLog \o <<Begun("account"), Done("account")>>
    /\ UNCHANGED <<file, prevFile, stageLog, root, snapshot, progress, keystore,
                   key_types, probe, supVars>>

\* mutant: a non-empty ROOT_DIR is cleared without asking
BootSetupDirs_ClearUnasked ==
    /\ bootPc = "setup_dirs"
    /\ \E clear \in BOOLEAN :
        LET nonEmpty == root.kind = "dir" /\ root.entries # {}
            refused == nonEmpty /\ config.interactive /\ ~clear
        IN  IF refused
            THEN /\ bootPc' = "failed"
                 /\ bootLog' = Append(bootLog, Begun("setup_dirs"))
                 /\ UNCHANGED <<root, file, config>>
            ELSE /\ bootPc' = NextStage("setup_dirs")
                 /\ bootLog' = bootLog \o <<Begun("setup_dirs"), Done("setup_dirs")>>
                 /\ root' = [kind |-> "dir",
                             entries |-> {config.nodes[k].name : k \in 1..Len(config.nodes)}]
                 /\ file' = IF nonEmpty THEN NoFile ELSE file
                 /\ config' = [config EXCEPT !.nodes = [k \in 1..Len(config.nodes) |->
                        [config.nodes[k] EXCEPT !.base_path = <<"root", config.nodes[k].name>>]]]
    /\ progress' = [node |-> 1, step |-> 1]
    /\ UNCHANGED <<prevFile, stageLog, snapshot, keystore, key_types, probe, supVars>>

\* setup_dirs
BootSetupDirs ==
    /\ bootPc = "setup_dirs"
    /\ \E clear \in BOOLEAN :
        LET nonEmpty == root.kind = "dir" /\ root.entries # {}
            refused == nonEmpty /\ (~config.interactive \/ ~clear)
        IN  IF refused
            THEN /\ bootPc' = "failed"
                 /\ bootLog' = Append(bootLog, Begun("setup_dirs"))
                 /\ UNCHANGED <<root, file, config>>
            ELSE /\ bootPc' = NextStage("setup_dirs")
                 /\ bootLog' = bootLog \o <<Begun("setup_dirs"), Done("setup_dirs")>>
                 /\ root' = [kind |-> "dir",
                             entries |-> {config.nodes[k].name : k \in 1..Len(config.nodes)}]
                 /\ file' = IF nonEmpty THEN NoFile ELSE file
                 /\ config' = [config EXCEPT !.nodes = [k \in 1..Len(config.nodes) |->
                        [config.nodes[k] EXCEPT !.base_path = <<"root", config.nodes[k].name>>]]]
    /\ progress' = [node |-> 1, step |-> 1]
    /\ UNCHANGED <<prevFile, stageLog, snapshot, keystore, key_types, probe, supVars>>

\* the parts one output of `key generate` may lack during key generation
KeyOmits == {{}, {"seed"}, {"account"}}

\* mutant: the snapshot is rewritten after every key
BootGenerateKey_EagerSnapshot ==
    /\ bootPc = "generate_keys"
    /\ progress.node <= Len(config.nodes)
    /\ \E exit_ok \in BOOLEAN, omit \in KeyOmits :
        LET steps == KeySteps(config.account_key_type)
            step == steps[progress.step]
            node == config.nodes[progress.node]
            r == generate_key(node, step, exit_ok, KeyReport(StepKind(step), node.name, omit))
        IN  /\ config' = [config EXCEPT !.nodes[progress.node] = r.node]
            /\ snapshot' = config'.nodes
            /\ root' = [root EXCEPT !.entries = @ \cup {"pysubnet.json"}]
            /\ IF r.err # ""
               THEN /\ bootPc' = "failed"
                    /\ UNCHANGED progress
               ELSE /\ bootPc' = bootPc
                    /\ progress' = IF progress.step < Len(steps)
                                   THEN [progress EXCEPT !.step = @ + 1]
                                   ELSE [node |-> progress.node + 1, step |-> 1]
            /\ bootLog' = IF progress = [node |-> 1, step |-> 1]
                          THEN Append(bootLog, Begun("generate_keys")) ELSE bootLog
    /\ UNCHANGED <<file, prevFile, stageLog, keystore, key_types, probe, supVars>>

\* generate_keys: one key of one node
BootGenerateKey ==
    /\ bootPc = "generate_keys"
    /\ progress.node <= Len(config.nodes)
    /\ \E exit_ok \in BOOLEAN, omit \in KeyOmits :
        LET steps == KeySteps(config.account_key_type)
            step == steps[progress.step]
            node == config.nodes[progress.node]
            r == generate_key(node, step, exit_ok, KeyReport(StepKind(step), node.name, omit))
        IN  /\ config' = [config EXCEPT !.nodes[progress.node] = r.node]
            /\ IF r.err # ""
               THEN /\ bootPc' = "failed"
                    /\ UNCHANGED progress
               ELSE /\ bootPc' = bootPc
                    /\ progress' = IF progress.step < Len(steps)
                                   THEN [progress EXCEPT !.step = @ + 1]
                                   ELSE [node |-> progress.node + 1, step |-> 1]
            /\ bootLog' = IF progress = [node |-> 1, step |-> 1]
                          THEN Append(bootLog, Begun("generate_keys")) ELSE bootLog
    /\ UNCHANGED <<file, prevFile, stageLog, root, snapshot, keystore, key_types,
                   probe, supVars>>

\* generate_keys, after the loop: json.dump(NODES) to ROOT_DIR/pysubnet.json
BootWriteSnapshot ==
    /\ bootPc = "generate_keys"
    /\ progress.node > Len(config.nodes)
    /\ snapshot' = config.nodes
    /\ root' = [root EXCEPT !.entries = @ \cup {"pysubnet.json"}]
    /\ bootPc' = NextStage("generate_keys")
    /\ bootLog' = Append(bootLog, Done("generate_keys"))
    /\ progress' = NoProgress
    /\ UNCHANGED <<config, file, prevFile, stageLog, keystore, key_types, probe, supVars>>

\* the documents the template file, or the tool's build-spec, may give
BootDocs ==
    {MkDoc({}, IntV(12), StrV("UNIT"), FALSE), MkDoc({}, None, None, TRUE)}
    \cup {MkDoc({sec}, IntV(12), StrV("UNIT"), TRUE) : sec \in Sections}

\* init_bootnodes_chainspec: the template is loaded, or build-spec is run
\* (tool_ok: it exited with 0 and printed JSON)
BootBootnodes ==
    /\ bootPc = "bootnodes"
    /\ \E tool_ok \in BOOLEAN,
          c \in IF config.chainspec = "path" THEN {config.template.data} ELSE BootDocs :
        LET r == init_bootnodes_chainspec(c, config)
        IN  IF config.chainspec # "path" /\ ~tool_ok
            THEN /\ bootPc' = "failed"
                 /\ bootLog' = Append(bootLog, Begun("bootnodes"))
                 /\ UNCHANGED <<file, prevFile, stageLog>>
            ELSE /\ stageLog' = Append(stageLog, [stage |-> "bootnodes", status |-> r.status])
                 /\ prevFile' = file
                 /\ IF r.status = "written"
                    THEN /\ file' = FileOf(r.file)
                         /\ bootPc' = NextStage("bootnodes")
                         /\ bootLog' = bootLog \o <<Begun("bootnodes"), Done("bootnodes")>>
                    ELSE /\ file' = file
                         /\ bootPc' = "failed"
                         /\ bootLog' = Append(bootLog, Begun("bootnodes"))
    /\ UNCHANGED <<config, root, snapshot, progress, keystore, key_types, probe, supVars>>

\* configure_network_consensus: the handler the prompt, --poa or the default
\* selects runs on chainspec.json
BootConsensus ==
    /\ bootPc = "consensus"
    /\ \E answer \in ConsensusChoices :
        LET choice == IF config.interactive /\ ~config.poa THEN answer
                      ELSE IF config.poa THEN "1" ELSE "2"
            r == IF file.exists THEN ConsensusHandler(choice, file.data, config)
                 ELSE RaisedOut("FileNotFoundError", file.data)
        IN  /\ stageLog' = Append(stageLog, [stage |-> choice, status |-> r.status])
            /\ prevFile' = file
            /\ file' = IF r.status = "written" THEN FileOf(r.file) ELSE file
            /\ IF r.status = "raised"
               THEN /\ bootPc' = "failed"
                    /\ bootLog' = Append(bootLog, Begun("consensus"))
                    /\ UNCHANGED key_types
               ELSE /\ bootPc' = NextStage("consensus")
                    /\ bootLog' = bootLog \o <<Begun("consensus"), Done("consensus")>>
                    /\ key_types' = ConsensusKeyTypes(choice)
    /\ UNCHANGED <<config, root, snapshot, progress, keystore, probe, supVars>>

customChainId ==
    IF config.apply_chainspec_customizations THEN StrV(config.network.chain.chain_id) ELSE None

\* the confirmation before insert_keystore, and the build-spec of
\* get_chainid_with (tool_ok: it exited with 0 and printed JSON with an id)
BootKeystoreBegin ==
    /\ bootPc = "insert_keystore"
    /\ progress = NoProgress
    /\ \E proceed \in BOOLEAN, tool_ok \in BOOLEAN :
        IF config.interactive /\ ~proceed
        THEN /\ bootPc' = "returned"
             /\ UNCHANGED <<bootLog, progress, keystore>>
        ELSE /\ bootLog' = Append(bootLog, Begun("insert_keystore"))
             /\ IF tool_ok
                THEN /\ bootPc' = bootPc
                     /\ progress' = [node |-> 1, step |-> 1]
                     /\ keystore' = [k \in 1..NumNodes |->
                            [keys |-> {}, chain |-> "local_testnet", inserts |-> <<>>,
                             reported |-> FALSE]]
                ELSE /\ bootPc' = "failed"
                     /\ UNCHANGED <<progress, keystore>>
    /\ UNCHANGED <<config, file, prevFile, stageLog, root, snapshot, key_types, probe, supVars>>

\* mutant: every key is inserted with the scheme of the block-production key
KeyInsertCommand_OneScheme(node, key_type, chain) ==
    [cwd |-> "root", base_path |-> node.name, chain |-> chain,
     scheme |-> "Sr25519",
     key_type |-> IF key_type = "grandpa" THEN "gran" ELSE key_type,
     suri |-> CASE key_type = "aura" -> node.aura_private_key
                [] key_type = "babe" -> node.babe_private_key
                [] key_type = "grandpa" -> node.grandpa_private_key]

\* insert_keystore: the `key insert` command of one key type of one node,
\* run with cwd=ROOT_DIR
KeyInsertCommand(node, key_type, chain) ==
    [cwd |-> "root", base_path |-> node.name, chain |-> chain,
     scheme |-> IF key_type = "grandpa" THEN "Ed25519" ELSE "Sr25519",
     key_type |-> IF key_type = "grandpa" THEN "gran" ELSE key_type,
     suri |-> CASE key_type = "aura" -> node.aura_private_key
                [] key_type = "babe" -> node.babe_private_key
                [] key_type = "grandpa" -> node.grandpa_private_key]

\* insert_keystore: `key insert` for one key type of one node
BootInsertKey ==
    /\ bootPc = "insert_keystore"
    /\ progress # NoProgress
    /\ progress.node <= Len(config.nodes)
    /\ \E exit_ok \in BOOLEAN :
        LET command == KeyInsertCommand(config.nodes[progress.node],
                                        key_types[progress.step], config.chainspec)
        IN  IF exit_ok
            THEN /\ keystore' = [keystore EXCEPT
                        ![progress.node].keys = @ \cup {key_types[progress.step]},
                        ![progress.node].inserts = Append(@, command)]
                 /\ progress' = IF progress.step < Len(key_types)
                                THEN [progress EXCEPT !.step = @ + 1]
                                ELSE [node |-> progress.node + 1, step |-> 1]
                 /\ bootPc' = bootPc
            ELSE /\ keystore' = [keystore EXCEPT
                        ![progress.node].inserts = Append(@, command)]
                 /\ bootPc' = "failed"
                 /\ UNCHANGED progress
    /\ UNCHANGED <<config, file, prevFile, stageLog, bootLog, root, snapshot, key_types,
                   probe, supVars>>

\* what the relocation of one node's keystore may meet: mkdir of the target
\* chain directory raises, shutil.move raises, shutil.rmtree of the original
\* chain directory raises, or none does
RelocationOutcomes == {"moved", "mkdir_fails", "move_fails", "rmtree_fails"}

\* the first node whose mkdir raises: mkdir is outside the try block, the
\* exception leaves insert_keystore; 0 when there is none
FirstUncaught(outcomes, n) ==
    IF \E k \in 1..n : outcomes[k] = "mkdir_fails"
    THEN CHOOSE k \in 1..n : /\ outcomes[k] = "mkdir_fails"
                             /\ \A h \in 1..(k - 1) : outcomes[h] # "mkdir_fails"
    ELSE 0

\* one iteration of the loop over NODES under `if alternate is not None`:
\* shutil.move raises by itself when <alternate>/keystore is there already,
\* which it is when alternate is the chain id the keys were inserted under;
\* every exception of the try block is printed
RelocateKeystore(ks, alternate, outcome) ==
    IF alternate = ks.chain \/ outcome = "move_fails"
    THEN [ks EXCEPT !.reported = TRUE]
    ELSE [ks EXCEPT !.chain = alternate, !.reported = (outcome = "rmtree_fails")]

\* insert_keystore, after the loop over the key types: the relocation of the
\* keystores under the custom chain id
BootKeystoreEnd ==
    /\ bootPc = "insert_keystore"
    /\ progress # NoProgress
    /\ progress.node > Len(config.nodes)
    /\ \E outcomes \in [1..NumNodes -> RelocationOutcomes] :
        LET n == Len(config.nodes)
            stop == IF customChainId = None THEN 0 ELSE FirstUncaught(outcomes, n)
            last == IF customChainId = None THEN 0 ELSE IF stop = 0 THEN n ELSE stop - 1
        IN  /\ keystore' = [k \in 1..NumNodes |->
                    IF k <= last
                    THEN RelocateKeystore(keystore[k], customChainId.s, outcomes[k])
                    ELSE keystore[k]]
            /\ IF stop = 0
               THEN /\ bootPc' = NextStage("insert_keystore")
                    /\ bootLog' = Append(bootLog, Done("insert_keystore"))
                    /\ progress' = NoProgress
               ELSE /\ bootPc' = "failed"
                    /\ UNCHANGED <<bootLog, progress>>
    /\ UNCHANGED <<config, file, prevFile, stageLog, root, snapshot, key_types, probe, supVars>>

\* generate_raw_chainspec: build-spec --raw on chainspec.json
BootRaw ==
    /\ bootPc = "raw"
    /\ \E tool_ok \in BOOLEAN :
        IF tool_ok /\ file.exists
        THEN /\ root' = [root EXCEPT !.entries = @ \cup {basename(RawChainspecPath)}]
             /\ config' = [config EXCEPT !.raw_chainspec = RawChainspecPath]
             /\ bootPc' = NextStage("raw")
             /\ bootLog' = bootLog \o <<Begun("raw"), Done("raw")>>
        ELSE /\ bootPc' = "failed"
             /\ bootLog' = Append(bootLog, Begun("raw"))
             /\ UNCHANGED <<root, config>>
    /\ UNCHANGED <<file, prevFile, stageLog, snapshot, progress, keystore,
                   key_types, probe, supVars>>

\* the end of main(): RUN_NETWORK, the confirmation, SUBSTRATE.start_network
BootStartNetwork ==
    /\ bootPc = "start_network"
    /\ \E start \in BOOLEAN :
        IF config.run_network /\ (config.interactive => start)
        THEN /\ bootPc' = "supervising"
             /\ bootLog' = Append(bootLog, Begun("start_network"))
             /\ SupStartNetwork
        ELSE /\ bootPc' = NextStage("start_network")
             /\ UNCHANGED <<bootLog, supVars>>
    /\ UNCHANGED <<config, file, prevFile, stageLog, root, snapshot, progress, keystore,
                   key_types, probe>>

(***************************************************************************)
(* SpecChain: the chainspec handlers applied to a document, any handler    *)
(* any number of times (up to MaxApply), as when a generated               *)
(* chainspec.json is passed back in as the --chainspec template.           *)
(***************************************************************************)
\* the handlers of the non-interactive run: --poa, and the default
ChainChoices == {"1", "2"}

InitChain ==
    /\ config \in KeyedConfigs
    /\ file \in {FileOf(d) : d \in BaseDocs}
    /\ prevFile = file
    /\ stageLog = <<>>
    /\ BootNone
    /\ SupIdle
    /\ NoCall


ChainBootnodes ==
    /\ Len(stageLog) < MaxApply
    /\ LET r == init_bootnodes_chainspec(file.data, config)
       IN  /\ file' = FileOf(r.file)
           /\ stageLog' = Append(stageLog, [stage |-> "bootnodes", status |-> r.status])
    /\ prevFile' = file
    /\ UNCHANGED <<config, bootVars, supVars>>

ChainConsensus ==
    /\ Len(stageLog) < MaxApply
    /\ \E choice \in ChainChoices :
          LET r == ConsensusHandler(choice, file.data, config)
          IN  /\ file' = FileOf(r.file)
              /\ stageLog' = Append(stageLog, [stage |-> choice, status |-> r.status])
    /\ prevFile' = file
    /\ UNCHANGED <<config, bootVars, supVars>>

ChainStep == ChainBootnodes \/ ChainConsensus

NextChain == ChainStep /\ UNCHANGED callVars

SpecChain == InitChain /\ [][NextChain]_vars

(***************************************************************************)
(* Claims about the chainspec handlers (SpecChain).                        *)
(***************************************************************************)
LastStage == stageLog[Len(stageLog)]
Ledger(data) == data.balances.balances
ValidatorAddress(k) == config.nodes[k][get_vkey(config.account_key_type)]

\* amount * 10^d written out in decimal: the digits of amount after d zeros
Scaled(amount, d) == IF amount = 0 THEN <<0>> ELSE Rep(0, d) \o NatDigits(amount)

\* C7: with balances reset, after the authorities/balances stage
\* (enable_poa_with_validator_set) the ledger holds exactly one entry per node,
\* in node order, with the node's validator address, whether or not the
\* config customizations are applied in the same stage.
C7_LedgerOneEntryPerNode ==
    (stageLog # <<>> /\ LastStage.stage = "2" /\ LastStage.status = "written")
    => /\ Len(Ledger(file.data)) = NumNodes
       /\ \A k \in 1..NumNodes : Ledger(file.data)[k][1] = ValidatorAddress(k)

\* C8: every validator entry written by balance injection has the value
\* amount * 10^tokenDecimals exactly, tokenDecimals being the integer of the
\* document's properties (18 if it has none).
C8_BalanceIsAmountTimesUnit ==
    (stageLog # <<>> /\ LastStage.status = "written" /\ LastStage.stage \in {"1", "2"})
    => LET led == Ledger(file.data)
           before == prevFile.data
           custom == config.apply_chainspec_customizations
           reset == custom /\ config.network.remove_existing_balances
           first == LastStage.stage = "2"
           d1 == IF before.properties.tokenDecimals.t = "none"
                 THEN DEFAULT_TOKEN_DECIMALS ELSE before.properties.tokenDecimals.i
           d2 == file.data.properties.tokenDecimals.i
           base == IF reset THEN 0 ELSE IF first THEN NumNodes ELSE Len(Ledger(before))
           amount(k) == IF config.nodes[k].balance.t = "none"
                        THEN DEFAULT_AMOUNT ELSE config.nodes[k].balance.i
       IN  /\ (first /\ ~reset) =>
                \A k \in 1..NumNodes :
                    led[k] = <<ValidatorAddress(k), Scaled(POA_VS_AMOUNT, d1)>>
           /\ custom =>
                \A k \in 1..NumNodes :
                    led[base + k] = <<ValidatorAddress(k), Scaled(amount(k), d2)>>

\* 5234 tokens at the default 18 decimals: 5234 followed by 18 zeros
C8_Witness ==
    /\ stageLog # <<>> /\ LastStage.stage = "2" /\ LastStage.status = "written"
    /\ prevFile.data.properties.tokenDecimals.t = "none"
    /\ ~config.apply_chainspec_customizations
    /\ Ledger(file.data)[1][2] = Rep(0, DEFAULT_TOKEN_DECIMALS) \o <<4, 3, 2, 5>>

ReplacedLists(data) ==
    <<data.bootNodes, data.aura.authorities, data.grandpa.authorities,
      data.session.keys, data.validatorSet.initialValidators>>

\* C9: bootnodes injection and authorities injection are idempotent: a second
\* application of the stage leaves bootNodes, the authority lists, the session
\* keys and initialValidators as the first application left them.
C9_ReplaceStagesIdempotent ==
    (Len(stageLog) >= 2 /\ LastStage.stage = stageLog[Len(stageLog) - 1].stage)
    => ReplacedLists(file.data) = ReplacedLists(prevFile.data)

C9_Witness ==
    /\ Len(stageLog) >= 2
    /\ LastStage = [stage |-> "2", status |-> "written"]
    /\ stageLog[Len(stageLog) - 1] = [stage |-> "2", status |-> "written"]
    /\ Len(file.data.session.keys) = NumNodes
    /\ Len(file.data.bootNodes) = 1

\* C10: after bootnodes injection bootNodes has exactly one entry per node, in
\* node order, built from the node's configured p2p port and its network
\* identity public key, on the local-binary and on the container backend.
C10_BootnodesOnePerNode ==
    (stageLog # <<>> /\ LastStage.stage = "bootnodes")
    => /\ Len(file.data.bootNodes) = NumNodes
       /\ \A k \in 1..NumNodes :
            /\ file.data.bootNodes[k][4] = config.nodes[k].p2p_port
            /\ file.data.bootNodes[k][6] = config.nodes[k].libp2p_public_key

(***************************************************************************)
(* SpecSup: the supervisor on its own, from Substrate.__init__ on, with    *)
(* the node processes, the containers and the interrupt as environment.    *)
(***************************************************************************)
InitSup ==
    /\ config \in {[MkConfig(e, "AccountId20", NoNetwork,
                             KeyedNodes(NumNodes, "AccountId20", None))
                        EXCEPT !.raw_chainspec = RawChainspecPath] : e \in ExecTypes}
    /\ file = NoFile
    /\ prevFile = NoFile
    /\ stageLog = <<>>
    /\ BootNone
    /\ SupIdle
    /\ NoCall


SupStep ==
    \/ SupStartNetwork
    \/ SupSpawnNode
    \/ SupAllSpawned
    \/ SupRunContainer
    \/ SupAllContainersRun
    \/ KeyboardInterrupt
    \/ ProcessExits
    \/ ContainerExits
    \/ SupTerminate
    \/ SupWait
    \/ SupKill
    \/ SupWaitKilled
    \/ SupCloseLogs
    \/ SupStopBinDone
    \/ SupStopContainer
    \/ SupStopContainersDone
    \/ SupCloseOpenFiles

NextSup == SupStep /\ UNCHANGED <<chainVars, bootVars, callVars>>

SpecSup == InitSup /\ [][NextSup]_vars

(***************************************************************************)
(* SpecBoot: one run of main(), from the parsed command line to the call   *)
(* of start_network.                                                       *)
(***************************************************************************)
BootNetworks ==
    {NoNetwork}
    \cup {[present |-> TRUE,
           chain |-> [chain_name |-> "My Chain", chain_id |-> id, chain_type |-> "Live"],
           token_symbol |-> StrV("TKN"),
           token_decimal |-> IntV(6),
           remove_existing_balances |-> TRUE,
           balances |-> NoBalances] : id \in {"my_chain", "local_testnet"}}

\* the values of --chainspec that parse_args accepts; --chainspec is looked at
\* only when no config file is given.  The named chain "dev" differs from
\* "local" only in what build-spec prints, which BootDocs covers.
BootChainspecValues == {v \in ChainspecValues : v.t = "none" \/ v.template # NoTemplate}

LoadedChainspecs ==
    {Chainspec_parse_value(v).value :
        v \in {w \in BootChainspecValues : ~Chainspec_parse_value(w).raised}}

BootConfig(a, nw, cs, flags) ==
    [MkConfig("none", a, nw,
              [k \in 1..NumNodes |->
                   [DefaultNode(k) EXCEPT !.balance = IF nw.present THEN IntV(7) ELSE None]])
        EXCEPT !.interactive = flags[1], !.run_network = flags[2], !.clean = flags[3],
               !.poa = flags[4], !.chainspec = cs.type, !.template = cs.template]

BootConfigs ==
    {BootConfig(a, nw, Chainspec_parse_value(ChainspecNone).value, flags) :
        a \in {"none", "AccountId32"}, nw \in BootNetworks \ {NoNetwork},
        flags \in [1..4 -> BOOLEAN]}
    \cup {BootConfig(a, NoNetwork, cs, flags) :
        a \in {"none", "AccountId32"}, cs \in LoadedChainspecs, flags \in [1..4 -> BOOLEAN]}

RootStates ==
    {[kind |-> "absent", entries |-> {}],
     [kind |-> "file", entries |-> {}],
     [kind |-> "dir", entries |-> {}],
     [kind |-> "dir", entries |-> {"pysubnet.json", "alice"}]}

InitBoot ==
    /\ config \in BootConfigs
    /\ file = NoFile
    /\ prevFile = NoFile
    /\ stageLog = <<>>
    /\ bootPc = "root_dir"
    /\ bootLog = <<>>
    /\ root \in RootStates
    /\ snapshot = <<>>
    /\ progress = NoProgress
    /\ keystore = EmptyKeystore
    /\ key_types = <<"aura", "grandpa">>
    /\ probe = NoProbe
    /\ SupIdle
    /\ NoCall


BootStep ==
    \/ BootRootDir
    \/ BootSubstrate
    \/ BootAccount
    \/ BootSetupDirs
    \/ BootGenerateKey
    \/ BootWriteSnapshot
    \/ BootBootnodes
    \/ BootConsensus
    \/ BootKeystoreBegin
    \/ BootInsertKey
    \/ BootKeystoreEnd
    \/ BootRaw
    \/ BootStartNetwork

NextBoot == BootStep /\ UNCHANGED callVars

SpecBoot == InitBoot /\ [][NextBoot]_vars

(***************************************************************************)
(* SpecRun: the end of a run of main(), from generate_raw_chainspec, with  *)
(* the supervisor that start_network enters.                               *)
(***************************************************************************)
RunConfigs ==
    {[MkConfig(e, "AccountId20", NoNetwork, KeyedNodes(NumNodes, "AccountId20", None))
        EXCEPT !.run_network = r, !.interactive = i] :
        e \in ExecTypes, r \in BOOLEAN, i \in BOOLEAN}

\* the events of main() that precede generate_raw_chainspec
LogBeforeRaw ==
    [j \in 1..16 |-> IF j % 2 = 1 THEN Begun(Stages[(j + 1) \div 2])
                                  ELSE Done(Stages[j \div 2])]

\* main() has inserted the keystores: chainspec.json holds the document of
\* the default consensus handler
InitRun ==
    /\ config \in RunConfigs
    /\ \E d \in {MkDoc({}, IntV(12), StrV("UNIT"), stale) : stale \in BOOLEAN} :
        LET b == init_bootnodes_chainspec(d, config)
            r == ConsensusHandler("2", b.file, config)
        IN  /\ b.status = "written"
            /\ r.status = "written"
            /\ file = FileOf(r.file)
            /\ prevFile = FileOf(b.file)
            /\ stageLog = <<[stage |-> "bootnodes", status |-> b.status],
                            [stage |-> "2", status |-> r.status]>>
    /\ bootPc = "raw"
    /\ bootLog = LogBeforeRaw
    /\ root = [kind |-> "dir",
               entries |-> {config.nodes[k].name : k \in 1..Len(config.nodes)}
                           \cup {"pysubnet.json"}]
    /\ snapshot = config.nodes
    /\ progress = NoProgress
    /\ keystore = [k \in 1..NumNodes |->
                      [keys |-> {"aura", "grandpa"}, chain |-> "local_testnet",
                       inserts |-> [j \in 1..2 |->
                            KeyInsertCommand(config.nodes[k], ConsensusKeyTypes("2")[j],
                                             config.chainspec)],
                       reported |-> FALSE]]
    /\ key_types = ConsensusKeyTypes("2")
    /\ probe = [kind |-> IF config.exec_type = "bin" THEN "binary" ELSE "image",
                exit_ok |-> TRUE,
                output |-> SubkeyOutput(<<"probe", "secret">>, GoodPub,
                                        <<"probe", "ss58">>, {})]
    /\ SupIdle
    /\ NoCall

\* the steps of the supervisor of node processes; a run on the container
\* backend ends in init_bootnodes_chainspec, before any container is run
SupBinStep ==
    \/ SupSpawnNode
    \/ SupAllSpawned
    \/ KeyboardInterrupt
    \/ ProcessExits
    \/ SupTerminate
    \/ SupWait
    \/ SupKill
    \/ SupWaitKilled
    \/ SupCloseLogs
    \/ SupStopBinDone
    \/ SupCloseOpenFiles

\* start_network running inside main()
RunSupervise ==
    /\ bootPc = "supervising"
    /\ SupBinStep
    /\ UNCHANGED <<chainVars, bootVars>>

RunStep ==
    \/ BootRaw
    \/ BootStartNetwork
    \/ RunSupervise

NextRun == RunStep /\ UNCHANGED callVars

SpecRun == InitRun /\ [][NextRun]_vars

(***************************************************************************)
(* Claims about the bootstrap (SpecBoot).                                  *)
(***************************************************************************)
BegunStages == {bootLog[j][1] : j \in {i \in 1..Len(bootLog) : bootLog[i][2] = "start"}}

\* every occurrence of event b in bootLog has an occurrence of a before it
Precedes(a, b) ==
    \A j \in 1..Len(bootLog) :
        bootLog[j] = b => \E i \in 1..(j - 1) : bootLog[i] = a

NoKeyMaterial(node) ==
    /\ node.libp2p_public_key = Absent
    /\ node.aura_private_key = Absent
    /\ node.babe_private_key = Absent
    /\ node.grandpa_private_key = Absent
    /\ node.validator_accountid20_private_key = Absent
    /\ node.validator_accountid32_private_key = Absent

HasAllKeys(node, account_key_type) ==
    /\ node.libp2p_public_key # Absent /\ node.libp2p_private_key # Absent
    /\ node.aura_public_key # Absent /\ node.aura_private_key # Absent
    /\ node.aura_ss58 # Absent
    /\ node.babe_public_key # Absent /\ node.babe_private_key # Absent
    /\ node.babe_ss58 # Absent
    /\ node.grandpa_public_key # Absent /\ node.grandpa_private_key # Absent
    /\ node.grandpa_ss58 # Absent
    /\ node[get_vkey(account_key_type)] # Absent

\* the tool answered the command of SubstrateType.validate with an output
\* that holds every label
ProbeParsed == probe.exit_ok /\ parse_subkey_output(probe.output).err = ""
ProbedKey == parse_subkey_output(probe.output).data.public_key

\* 0x followed by 64 hexadecimal characters
IsHex32(key) ==
    \E body \in {SubSeq(key, 3, Len(key))} :
        /\ Len(body) = 64
        /\ SubSeq(key, 1, 2) = <<"0", "x">>
        /\ \A k \in 1..Len(body) : body[k] \in HexChars

\* C3: when the self-validation command of the backend returns a public key
\* that is not 0x followed by 64 hexadecimal characters, the construction
\* fails: no backend exists, and no key generation, keystore or chainspec step
\* ever runs with that tool.
C3_MalformedProbeKeyNoBackend ==
    (ProbeParsed /\ ~IsHex32(ProbedKey))
    => /\ config.exec_type = "none"
       /\ bootPc = "failed"
       /\ BegunStages \cap {"account", "setup_dirs", "generate_keys", "bootnodes",
                            "consensus", "insert_keystore", "raw", "start_network"} = {}
       /\ \A k \in 1..Len(config.nodes) : NoKeyMaterial(config.nodes[k])
       /\ keystore = EmptyKeystore
       /\ ~file.exists

\* the tool returned a key that is one character too long, and main() failed
C3_Witness ==
    /\ ProbeParsed
    /\ Len(ProbedKey) = 2 + PUBLIC_KEY_HEX_DIGITS + 1
    /\ \A k \in 3..Len(ProbedKey) : ProbedKey[k] \in HexChars
    /\ bootPc = "failed"

ConsensusRan ==
    /\ stageLog # <<>>
    /\ stageLog[Len(stageLog)].stage \in ConsensusChoices

\* C4: when the chainspec document lacks a section that the selected consensus
\* mode needs, so that the consensus handler cannot complete its edit, the
\* bootstrap aborts there: no keystore installation, raw chainspec generation
\* or network start follows.
C4_MissingSectionAbortsBootstrap ==
    (/\ ConsensusRan
     /\ stageLog[Len(stageLog)].status # "written"
     /\ \E sec \in Sections : ~prevFile.data[sec].present)
    => /\ bootPc = "failed"
       /\ BegunStages \cap {"insert_keystore", "raw", "start_network"} = {}

KeygenFailed ==
    /\ bootPc = "failed"
    /\ bootLog # <<>>
    /\ bootLog[Len(bootLog)] = Begun("generate_keys")

\* C5: when a tool invocation or an output parse fails during key generation,
\* pysubnet.json is not written and no later stage runs; and pysubnet.json,
\* once written, holds every node with all of its keys.
C5_SnapshotOnlyAfterAllKeys ==
    /\ KeygenFailed
       => /\ "pysubnet.json" \notin root.entries
          /\ snapshot = <<>>
          /\ BegunStages \cap {"bootnodes", "consensus", "insert_keystore", "raw",
                               "start_network"} = {}
          /\ ~file.exists
          /\ keystore = EmptyKeystore
          /\ supState = "Idle"
    /\ snapshot # <<>>
       => /\ Len(snapshot) = NumNodes
          /\ \A k \in 1..Len(snapshot) : HasAllKeys(snapshot[k], config.account_key_type)

\* key generation failed on the second node, the first one having all its keys
C5_Witness ==
    /\ KeygenFailed
    /\ progress.node = 2
    /\ HasAllKeys(config.nodes[1], config.account_key_type)

\* C6 as the specification has it: the stages run in the order key
\* generation, keystore installation, chainspec pipeline, network start; the
\* keystore installation is complete before the chainspec pipeline makes its
\* first change to the document.
C6_KeystoreBeforeChainspec ==
    /\ Precedes(Done("generate_keys"), Begun("insert_keystore"))
    /\ Precedes(Done("insert_keystore"), Begun("bootnodes"))
    /\ Precedes(Done("raw"), Begun("start_network"))

\* C6, amended: the stages run one after the other in the order key
\* generation, bootnode injection, consensus injection, keystore installation,
\* raw chainspec generation, network start; each begins only after the one
\* before it is complete.
C6_StagesInOrder ==
    /\ Precedes(Done("generate_keys"), Begun("bootnodes"))
    /\ Precedes(Done("bootnodes"), Begun("consensus"))
    /\ Precedes(Done("consensus"), Begun("insert_keystore"))
    /\ Precedes(Done("insert_keystore"), Begun("raw"))
    /\ Precedes(Done("raw"), Begun("start_network"))

\* a bootstrap that went through every stage and called start_network
C6_Witness ==
    /\ bootPc = "supervising"
    /\ supState = "Starting"
    /\ \A k \in 1..NumNodes : keystore[k].keys # {}
    /\ "raw_chainspec.json" \in root.entries

(***************************************************************************)
(* Claims about the supervisor (SpecSup).                                  *)
(***************************************************************************)
AllHandles == {<<k, h>> : k \in 1..NumNodes, h \in {"log", "err"}}
HandleState(k, h) == IF h = "log" THEN handles[k].log ELSE handles[k].err

\* C1: on the local-binary backend, once stop_network has returned after a
\* start of N nodes, every spawned node process has exited and been reaped and
\* every one of the 2N log-file handles is closed.
C1_StoppedMeansReapedAndClosed ==
    (supState = "Stopped" /\ config.exec_type = "bin")
    => /\ \A k \in 1..NumNodes : procs[k].state = "reaped"
       /\ \A k \in 1..NumNodes : handles[k] = [log |-> "closed", err |-> "closed"]

\* a stop in which one node had died before the interrupt and another, which
\* ignored SIGTERM, was killed
C1_Witness ==
    /\ supState = "Stopped"
    /\ config.exec_type = "bin"
    /\ \E k \in 1..NumNodes : procs[k].diedBeforeStop
    /\ \E k \in 1..NumNodes : procs[k].ignoresTerm /\ procs[k].killSent

\* C2: every log-file handle the supervisor opened is closed on every path by
\* which start_network or stop_network exits, the abnormal ones included.
C2_HandlesClosedOnEveryExit ==
    supState \in {"Stopped", "Aborted"}
    => \A k \in 1..NumNodes : handles[k].log # "open" /\ handles[k].err # "open"

(***************************************************************************)
(* SpecCalls: one call of one function of the program, on arguments drawn  *)
(* from bounded sets.                                                      *)
(***************************************************************************)
\* the lines a key report is made of: a label with its value, or a label
\* whose value is not there
ReportLines ==
    {SECRET_PHRASE \o PhraseTokens,
     SECRET_SEED \o <<Data(<<"probe", "secret">>)>>,
     SECRET_SEED,
     PUBLIC_KEY_HEX \o <<Data(GoodPub)>>,
     PUBLIC_KEY_HEX,
     ACCOUNT_ID \o <<Data(GoodPub)>>,
     PUBLIC_KEY_SS58 \o <<Data(<<"probe", "ss58">>)>>,
     PUBLIC_KEY_SS58}

RECURSIVE Flatten(_)
Flatten(lines) == IF lines = <<>> THEN <<>> ELSE Head(lines) \o Flatten(Tail(lines))

\* up to MaxLines different lines, in any order
Reports ==
    {Flatten(lines) : lines \in UNION {
        {f \in [1..n -> ReportLines] : \A i, j \in 1..n : i # j => f[i] # f[j]} :
        n \in 0..MaxLines}}

CallParseSubkeyOutput ==
    /\ call.fn = "none"
    /\ \E output \in Reports :
        /\ call' = [fn |-> "parse_subkey_output", output |-> output]
        /\ result' = parse_subkey_output(output)
    /\ UNCHANGED <<chainVars, bootVars, supVars>>

ToolCommands ==
    {<<"key", "generate", "--scheme", "Sr25519">>,
     <<"build-spec", "--chain", "local", "--raw">>}
ToolRuns ==
    {[exit_code |-> e, stderr |-> <<"Error: ", why>>, stdout_json |-> j] :
        e \in {"0", "1", "101"}, why \in {"", "no such chain"}, j \in BOOLEAN}
ToolSource(exec_type) == IF exec_type = "bin" THEN "/usr/bin/substrate" ELSE "parity/substrate:latest"

CallRunCommand ==
    /\ call.fn = "none"
    /\ \E exec_type \in ExecTypes, command_args \in ToolCommands, json \in BOOLEAN,
          tool \in ToolRuns :
        /\ call' = [fn |-> "run_command", exec_type |-> exec_type,
                    source |-> ToolSource(exec_type), command_args |-> command_args,
                    json |-> json, tool |-> tool]
        /\ result' = Substrate_run_command(exec_type, ToolSource(exec_type),
                                           command_args, json, tool)
    /\ UNCHANGED <<chainVars, bootVars, supVars>>

\* the node entries of a config file
NodeConfigs ==
    [name : {"alice", "bob"},
     rpc_port : {RPC_DEFAULT, RPC_DEFAULT + 1},
     p2p_port : {P2P_DEFAULT, P2P_DEFAULT + 1},
     prometheus_port : {PROM_DEFAULT, PROM_DEFAULT + 1}]

CallValidateNodes ==
    /\ call.fn = "none"
    /\ \E n \in 1..NumNodes :
       \E nodes \in [1..n -> NodeConfigs], context \in ValidationContexts :
        /\ call' = [fn |-> "validate_unique_node_attributes", nodes |-> nodes,
                    context |-> context]
        /\ result' = validate_unique_node_attributes(nodes, context)
    /\ UNCHANGED <<chainVars, bootVars, supVars>>

CallLoadChainspec ==
    /\ call.fn = "none"
    /\ \E v \in ChainspecValues :
        /\ call' = [fn |-> "Chainspec", v |-> v]
        /\ result' = Chainspec_parse_value(v)
    /\ UNCHANGED <<chainVars, bootVars, supVars>>

\* the addresses of a [network.balances] section
BareHex == Rep("b", HEX_ADDRESS_LEN)
InnerPrefixHex == <<"0", "x">> \o Rep("c", HEX_ADDRESS_LEN - 1) \o <<"0", "x", "c">>
ShortSs58 == Rep("5", SS58_MIN_LEN - 1)
HexAddresses == {GoodHex, UpperHex, ShortHex, BareHex, InnerPrefixHex}
Ss58Addresses == {GoodSs58, BadSs58, ShortSs58}

\* a dict of addresses with their amounts, in the order of the file
AddressDicts(addresses, first_amount) ==
    UNION {{[k \in 1..n |-> <<f[k], first_amount + k>>] :
                f \in {g \in [1..n -> addresses] : \A i, j \in 1..n : i # j => g[i] # g[j]}} :
           n \in 0..MaxAddresses}

CallInjectConfigBalances ==
    /\ call.fn = "none"
    /\ \E d \in DocDecimals, stale \in BOOLEAN, a \in AccountKeyTypes,
          hex \in AddressDicts(HexAddresses, 2), ss58 \in AddressDicts(Ss58Addresses, 0) :
        LET data == MkDoc({}, d, StrV("UNIT"), stale)
            network == [NoNetwork EXCEPT !.present = TRUE,
                            !.balances = [present |-> TRUE, hex |-> hex, ss58 |-> ss58]]
        IN  /\ call' = [fn |-> "inject_config_balances", data |-> data, hex |-> hex,
                        ss58 |-> ss58]
            /\ result' = inject_config_balances(data, MkConfig("bin", a, network, <<>>))
    /\ UNCHANGED <<chainVars, bootVars, supVars>>

InitCalls ==
    /\ config = MkConfig("bin", "AccountId20", NoNetwork,
                         KeyedNodes(NumNodes, "AccountId20", None))
    /\ file = NoFile
    /\ prevFile = NoFile
    /\ stageLog = <<>>
    /\ BootNone
    /\ SupIdle
    /\ NoCall


NextCalls ==
    \/ CallParseSubkeyOutput
    \/ CallRunCommand
    \/ CallValidateNodes
    \/ CallLoadChainspec
    \/ CallInjectConfigBalances

SpecCalls == InitCalls /\ [][NextCalls]_vars

(***************************************************************************)
(* Claims about single calls (SpecCalls).                                  *)
(***************************************************************************)
MandatoryLabels == {SECRET_SEED, PUBLIC_KEY_HEX, PUBLIC_KEY_SS58}

LabelAt(output, label, i) ==
    /\ i + Len(label) - 1 <= Len(output)
    /\ \A j \in 1..Len(label) : output[i + j - 1] = label[j]
HasLabel(output, label) == \E i \in 1..Len(output) : LabelAt(output, label, i)

\* the first occurrence of the label ends the output, or is followed at once
\* by the same label
NoTokenAfter(output, label) ==
    \E i \in 1..Len(output) :
        /\ LabelAt(output, label, i)
        /\ \A h \in 1..(i - 1) : ~LabelAt(output, label, h)
        /\ \/ i + Len(label) > Len(output)
           \/ LabelAt(output, label, i + Len(label))

\* the label stands once in the output, and a value follows it
ValueOf(output, label) ==
    LET i == CHOOSE i \in 1..Len(output) : LabelAt(output, label, i)
    IN  output[i + Len(label)].c
LabelledOnce(output, label) ==
    /\ \E i \in 1..Len(output) :
        /\ LabelAt(output, label, i)
        /\ \A h \in 1..Len(output) : LabelAt(output, label, h) => h = i
        /\ i + Len(label) <= Len(output)
        /\ output[i + Len(label)].w = ""
WellFormedReport(output) ==
    \A label \in MandatoryLabels \cup {ACCOUNT_ID} : LabelledOnce(output, label)

\* C11: parse_subkey_output raises when a mandatory label (Secret seed, Public
\* key (hex), Public key (SS58)) is not in the output or has no token after it;
\* a record it returns has a non-empty secret, public key and address; and on a
\* report that holds every label once with its value it returns these values.
C11_MissingLabelRaises ==
    call.fn = "parse_subkey_output"
    => /\ (\E label \in MandatoryLabels :
                ~HasLabel(call.output, label) \/ NoTokenAfter(call.output, label))
          => result.err # ""
       /\ result.err = ""
          => /\ result.data.secret # <<>>
             /\ result.data.public_key # <<>>
             /\ result.data.ss58_address # <<>>
       /\ WellFormedReport(call.output)
          => /\ result.err = ""
             /\ result.data.secret = ValueOf(call.output, SECRET_SEED)
             /\ result.data.public_key = ValueOf(call.output, PUBLIC_KEY_HEX)
             /\ result.data.ss58_address = ValueOf(call.output, PUBLIC_KEY_SS58)

\* a report that ends with the label of the public key, every other label
\* being there with its value: the parse raised
C11_Witness ==
    /\ call.fn = "parse_subkey_output"
    /\ NoTokenAfter(call.output, PUBLIC_KEY_HEX)
    /\ \A label \in {SECRET_SEED, PUBLIC_KEY_SS58, ACCOUNT_ID} :
            LabelledOnce(call.output, label)
    /\ result.err = "IndexError"

\* the parts of the message, one after the other
RECURSIVE MessageText(_)
MessageText(message) ==
    IF message = <<>> THEN <<>> ELSE Head(message) \o MessageText(Tail(message))

Contains(text, words) ==
    \E i \in 1..Len(text) :
        /\ i + Len(words) - 1 <= Len(text)
        /\ \A j \in 1..Len(words) : text[i + j - 1] = words[j]

\* C12: on both backends and in both output modes, a command that exits with
\* a nonzero status returns no result: run_command raises a failure that holds
\* all the arguments of the command and its captured stderr.
C12_NonzeroExitCarriesCommandAndStderr ==
    (call.fn = "run_command" /\ call.tool.exit_code # "0")
    => /\ result.raised
       /\ Contains(MessageText(result.message), call.command_args)
       /\ Contains(MessageText(result.message), call.tool.stderr)

\* C13: a non-empty root directory whose clearing was not authorized (a
\* non-interactive run without --clean, or the prompt "Clear it out?" declined)
\* makes setup_dirs fail; up to and at that failure no node directory is
\* created, no node is changed, and the entries of the directory stay as they
\* were.
C13_RefusedSetupLeavesRoot ==
    [][/\ (bootPc \in {"root_dir", "substrate", "account"} /\ ~config.clean
           /\ root.kind = "dir")
          => root' = root
       /\ (bootPc = "setup_dirs" /\ root.entries # {}
           /\ (~config.interactive \/ bootPc' = "failed"))
          => /\ bootPc' = "failed"
             /\ root' = root
             /\ config'.nodes = config.nodes
             /\ \A k \in 1..Len(config.nodes) :
                    /\ config.nodes[k].base_path = Absent
                    /\ NoKeyMaterial(config.nodes[k])
             /\ snapshot' = <<>>]_vars

\* a non-interactive run without --clean found the entries of an earlier run
\* and failed in setup_dirs
C13_Witness ==
    /\ bootPc = "failed"
    /\ bootLog[Len(bootLog)] = Begun("setup_dirs")
    /\ ~config.interactive
    /\ ~config.clean
    /\ root = [kind |-> "dir", entries |-> {"pysubnet.json", "alice"}]

Distinct(nodes, field) ==
    \A i, j \in 1..Len(nodes) : i # j => nodes[i][field] # nodes[j][field]

\* C14: a node list that the validation of the config file accepts, under any
\* validation context, has pairwise distinct names, p2p ports, rpc ports and
\* prometheus ports.
C14_AcceptedNodesAreDistinct ==
    (call.fn = "validate_unique_node_attributes" /\ ~result.raised)
    => /\ Distinct(call.nodes, "name")
       /\ Distinct(call.nodes, "p2p_port")
       /\ Distinct(call.nodes, "rpc_port")
       /\ Distinct(call.nodes, "prometheus_port")

\* the substructure a template must hold
RequiredSubstructure == {"aura", "session", "balances", "properties"}

DeficientTemplate ==
    /\ config.chainspec = "path"
    /\ \E sec \in RequiredSubstructure : ~config.template.data[sec].present

\* C15: a caller-supplied template that lacks a required substructure (the
\* authority lists of the genesis patch, the session-keys section, the balances
\* ledger, the properties) is rejected when it is loaded: no bootstrap runs
\* with such a template, so no key is generated for it.
C15_DeficientTemplateRejectedAtLoad ==
    DeficientTemplate
    => /\ \A k \in 1..Len(config.nodes) : NoKeyMaterial(config.nodes[k])
       /\ BegunStages \cap {"generate_keys", "bootnodes", "consensus"} = {}

\* the shape of an ECDSA address: 40 hex digits, optionally after "0x"
HasPrefix0x(a) == Len(a) >= 2 /\ a[1] = "0" /\ a[2] \in {"x", "X"}
HexDigitsOf(a) == IF HasPrefix0x(a) THEN SubSeq(a, 3, Len(a)) ELSE a
WellFormedHex(a) == MatchClass(HexDigitsOf(a), HexChars, HEX_ADDRESS_LEN, HEX_ADDRESS_LEN)
WellFormedSs58(a) == MatchClass(a, Base58Chars, SS58_MIN_LEN, SS58_MAX_LEN)
\* the address as the ledger holds it
LedgerHex(a) == <<"0", "x">> \o Lower(HexDigitsOf(a))

CallUnit ==
    IF call.data.properties.tokenDecimals = None THEN DEFAULT_TOKEN_DECIMALS
    ELSE call.data.properties.tokenDecimals.i
AddedEntries ==
    SubSeq(Ledger(result.data), Len(Ledger(call.data)) + 1, Len(Ledger(result.data)))
Times(entries, e) == Cardinality({j \in 1..Len(entries) : entries[j] = e})
LedgerKept ==
    /\ Len(Ledger(result.data)) >= Len(Ledger(call.data))
    /\ SubSeq(Ledger(result.data), 1, Len(Ledger(call.data))) = Ledger(call.data)

\* C16: the injection of the configured balances never fails on an address;
\* the ledger keeps the entries it had; every well-formed hex or SS58 address
\* of the config adds exactly one entry, its address with its amount times
\* 10^tokenDecimals; and nothing else is added, so a malformed address adds no
\* entry.
C16_OneEntryPerWellFormedAddress ==
    call.fn = "inject_config_balances"
    => /\ result.err = ""
       /\ LedgerKept
       /\ \A k \in 1..Len(call.hex) :
            WellFormedHex(call.hex[k][1])
            => Times(AddedEntries, <<LedgerHex(call.hex[k][1]), Scaled(call.hex[k][2], CallUnit)>>) = 1
       /\ \A k \in 1..Len(call.ss58) :
            WellFormedSs58(call.ss58[k][1])
            => Times(AddedEntries, <<call.ss58[k][1], Scaled(call.ss58[k][2], CallUnit)>>) = 1
       /\ Len(AddedEntries) = Cardinality({k \in 1..Len(call.hex) : WellFormedHex(call.hex[k][1])})
                              + Cardinality({k \in 1..Len(call.ss58) : WellFormedSs58(call.ss58[k][1])})

\* the run has not got past the construction of the backend
BeforeBackend == bootPc \in {"root_dir", "substrate"}

\* C17: the construction of the backend can fail whenever it is reached, so
\* the claim is about every step up to and including it: such a step leaves
\* the root directory as this run found it (not created, not cleaned), makes
\* no node directory and writes no file.
C17_BackendFailureLeavesNoTrace ==
    [][BeforeBackend
       => /\ root' = root
          /\ file' = file
          /\ snapshot' = snapshot
          /\ \A k \in 1..Len(config.nodes) : config'.nodes[k].base_path = Absent]_vars

StoppingBin == supState = "Stopping" /\ config.exec_type = "bin"
\* the supervisor has called wait(timeout=2) on the first node
FirstWaitBegun == supIdx > 1 \/ supPhase \in {"kill", "rewait", "close"}
ProcOf(i) == procs[running_nodes[i]]

\* C18 as stated: on the local-binary backend, once the supervisor has begun to
\* wait on a node, every node process that is still running has been sent the
\* termination request.
C18_AllTerminatedBeforeFirstWait ==
    (StoppingBin /\ FirstWaitBegun)
    => \A i \in 1..Len(running_nodes) : ProcOf(i).state = "running" => ProcOf(i).termSent

\* what the supervisor does instead: it stops the nodes one at a time, in start
\* order.  The nodes before the current one have been reaped and their logs
\* closed; the current node gets the termination request before its own wait;
\* the nodes after it have been sent neither the termination request nor a kill.
TerminateThenWaitPerNode ==
    StoppingBin
    => \A i \in 1..Len(running_nodes) :
        /\ i < supIdx => /\ ProcOf(i).state = "reaped"
                         /\ handles[running_nodes[i]] = [log |-> "closed", err |-> "closed"]
        /\ (i = supIdx /\ supPhase # "terminate")
           => (ProcOf(i).termSent \/ ProcOf(i).diedBeforeStop)
        /\ i > supIdx => ~ProcOf(i).termSent /\ ~ProcOf(i).killSent

\* C19: in the stop of a node process, the kill follows the bounded wait if and
\* only if the process is still alive when the wait expires (otherwise the logs
\* are closed next); only the node being stopped is ever killed, and only while
\* it runs; the kill is followed by the unconditional wait, which reaps the
\* process; and after either path the supervisor is still stopping, closes the
\* node's logs and goes on to the next node.
C19_KillIffAliveAfterGrace ==
    [][(StoppingBin /\ supIdx <= Len(running_nodes))
       => /\ (supPhase = "wait" /\ supPhase' # "wait")
             => /\ supPhase' = "kill" <=> ProcOf(supIdx).state = "running"
                /\ supPhase' \in {"kill", "close"}
                /\ supState' = "Stopping" /\ supIdx' = supIdx
          /\ \A k \in DOMAIN procs :
                (procs'[k].killSent /\ ~procs[k].killSent)
                => supPhase = "kill" /\ k = StoppingNode /\ procs[k].state = "running"
          /\ (supPhase = "kill" /\ supPhase' # "kill")
             => supPhase' = "rewait" /\ supState' = "Stopping" /\ supIdx' = supIdx
          /\ (supPhase = "rewait" /\ supPhase' # "rewait")
             => /\ supPhase' = "close" /\ supState' = "Stopping" /\ supIdx' = supIdx
                /\ procs'[StoppingNode].state = "reaped"
          /\ (supPhase = "close" /\ supPhase' # "close")
             => /\ supPhase' = "terminate" /\ supState' = "Stopping" /\ supIdx' = supIdx + 1
                /\ procs'[StoppingNode].state = "reaped"]_vars

\* a node was killed after its grace period, and the supervisor is at the next
C19_Witness ==
    /\ StoppingBin
    /\ supIdx = 2
    /\ supIdx <= Len(running_nodes)
    /\ ProcOf(1).killSent
    /\ ProcOf(1).state = "reaped"
    /\ ProcOf(2).state = "running"

\* C20: a step taken while the supervisor is Running starts no process or
\* container, sends no termination request and no kill, reaps nothing, and
\* leaves the lists of handles and every log file as they were; a node that
\* has exited stays as it is; and the supervisor is Running afterwards, or
\* Stopping, which it enters only on the interrupt.
C20_RunningIsPassive ==
    [][supState = "Running"
       => /\ supState' \in {"Running", "Stopping"}
          /\ supState' = "Stopping" => KeyboardInterrupt
          /\ <<node_procs, running_nodes, running_containers, open_files, handles>>'
             = <<node_procs, running_nodes, running_containers, open_files, handles>>
          /\ \A k \in DOMAIN procs :
                /\ procs'[k].termSent = procs[k].termSent
                /\ procs'[k].killSent = procs[k].killSent
                /\ procs[k].state # "running" => procs'[k] = procs[k]
                /\ procs'[k].state \in {procs[k].state, "zombie"}
          /\ \A k \in DOMAIN containers :
                containers'[k] \in {containers[k], "removed"}]_vars

\* the network runs and a node has crashed: exited, not reaped, logs open
C20_Witness ==
    /\ supState = "Running"
    /\ \E k \in DOMAIN procs :
        /\ procs[k].state = "zombie"
        /\ procs[k].diedBeforeStop
        /\ ~procs[k].termSent
        /\ handles[k] = [log |-> "open", err |-> "open"]

\* a consensus handler has injected the authorities (and balances) and has
\* written chainspec.json
AuthoritiesInjected ==
    \E j \in 1..Len(stageLog) :
        stageLog[j].stage \in ConsensusChoices /\ stageLog[j].status = "written"
IdentityOverridden ==
    /\ file.exists
    /\ config.apply_chainspec_customizations
    /\ file.data.name = config.network.chain.chain_name
    /\ file.data.id = config.network.chain.chain_id
    /\ file.data.chainType = config.network.chain.chain_type

\* C21: the document goes through its stages in the fixed order, so a
\* chainspec.json that carries the chain-identity overrides of the config
\* (name, id, chain type) has had its authorities and balances injected before.
C21_CustomizationsAfterInjection ==
    IdentityOverridden => AuthoritiesInjected

\* chainspec.json and raw_chainspec.json have been generated
RawGenerated == Done("raw") \in {bootLog[j] : j \in 1..Len(bootLog)}

Launched == {k \in DOMAIN launched : launched[k] # NotLaunched}

CustomizationsApplied ==
    /\ stageLog # <<>>
    /\ stageLog[Len(stageLog)].stage \in ChainChoices
    /\ stageLog[Len(stageLog)].status = "written"
    /\ config.apply_chainspec_customizations
    /\ config.network.present

\* the configured value if set, otherwise the previous one, otherwise the default
ConfiguredOrPrevious(configured, previous, default) ==
    IF configured # None THEN configured
    ELSE IF previous # None THEN previous
    ELSE default

\* C23: after the customizations have been applied the properties hold
\* tokenDecimals = configured token-decimal, else the previous tokenDecimals,
\* else 18, and tokenSymbol = configured token-symbol, else the previous
\* tokenSymbol, else "DOT"; tokenDecimals is an integer, tokenSymbol a string.
C23_TokenMetadataAfterCustomizations ==
    CustomizationsApplied
    => /\ file.data.properties.tokenDecimals
            = ConfiguredOrPrevious(config.network.token_decimal,
                                   prevFile.data.properties.tokenDecimals, IntV(18))
       /\ file.data.properties.tokenSymbol
            = ConfiguredOrPrevious(config.network.token_symbol,
                                   prevFile.data.properties.tokenSymbol, StrV("DOT"))
       /\ file.data.properties.tokenDecimals.t = "int"
       /\ file.data.properties.tokenSymbol.t = "str"

\* the output has the label, and `value` is the token that follows it
HasField(output, label, value) ==
    /\ Occurrences(output, label) # {}
    /\ SplitSecond(output, label) # <<>>
    /\ TokenText(SplitSecond(output, label)[1]) = value

HasMandatoryFields(output) ==
    /\ HasField(output, SECRET_SEED, <<"probe", "secret">>)
    /\ HasField(output, PUBLIC_KEY_HEX, GoodPub)
    /\ HasField(output, PUBLIC_KEY_SS58, <<"probe", "ss58">>)

\* C24: parsing a key report that has the three mandatory labels with their
\* values succeeds whether or not "Secret phrase:" and "Account ID:" are
\* there; an absent optional field is returned as null and the mandatory
\* fields are returned as they are in the report.
C24_OptionalLabelsMayBeAbsent ==
    (call.fn = "parse_subkey_output" /\ HasMandatoryFields(call.output))
    => /\ result.err = ""
       /\ result.data.secret = <<"probe", "secret">>
       /\ result.data.public_key = GoodPub
       /\ result.data.ss58_address = <<"probe", "ss58">>
       /\ Occurrences(call.output, SECRET_PHRASE) = {} => result.data.secret_phrase.none
       /\ Occurrences(call.output, ACCOUNT_ID) = {} => result.data.account_id = <<>>

\* the key types the consensus handler of the choice needs
RequiredKeyTypes(choice) ==
    IF choice \in {"3", "4"} THEN <<"babe", "grandpa">> ELSE <<"aura", "grandpa">>

\* the consensus handler that ran in this bootstrap
SelectedMode == stageLog[Len(stageLog)].stage

\* the invocation for one key type of one node: the node's base path, the
\* node's secret of that key type, Sr25519 for aura and babe, Ed25519 and
\* the tag gran for the finality key
IsInsertOf(command, node, key_type) ==
    /\ <<command.cwd, command.base_path>> = node.base_path
    /\ command.chain = config.chainspec
    /\ CASE key_type = "aura" ->
                /\ command.scheme = "Sr25519"
                /\ command.key_type = "aura"
                /\ command.suri = <<"aura", "secret", node.name>>
         [] key_type = "babe" ->
                /\ command.scheme = "Sr25519"
                /\ command.key_type = "babe"
                /\ command.suri = <<"babe", "secret", node.name>>
         [] key_type = "grandpa" ->
                /\ command.scheme = "Ed25519"
                /\ command.key_type = "gran"
                /\ command.suri = <<"grandpa", "secret", node.name>>

KeystoreInstalling ==
    /\ bootPc \in {"insert_keystore", "raw", "start_network", "supervising", "returned", "failed"}
    /\ Begun("insert_keystore") \in {bootLog[j] : j \in 1..Len(bootLog)}
    /\ progress # NoProgress \/ Done("insert_keystore") \in {bootLog[j] : j \in 1..Len(bootLog)}

\* C25: the keystore installation issues, node after node in the order of
\* the node list, one key-insert invocation per required key type of the
\* selected consensus mode, each with the node's own base path and its own
\* secret of that key type, Sr25519 for aura or babe and Ed25519 with the
\* tag gran for the finality key; when it is done every node has had
\* exactly those invocations.
C25_OneInsertPerNodePerKeyType ==
    \A k \in 1..Len(config.nodes) :
        LET issued == keystore[k].inserts
            required == RequiredKeyTypes(SelectedMode)
        IN  /\ issued # <<>> => KeystoreInstalling
            /\ issued # <<>> =>
                  /\ Len(issued) <= Len(required)
                  /\ \A j \in 1..Len(issued) :
                        IsInsertOf(issued[j], config.nodes[k], required[j])
                  /\ \A h \in 1..(k - 1) : Len(keystore[h].inserts) = Len(required)
            /\ Done("insert_keystore") \in {bootLog[j] : j \in 1..Len(bootLog)}
                  => Len(issued) = Len(required)

\* the keystores of a babe/grandpa network have been installed
C25_Witness ==
    /\ Done("insert_keystore") \in {bootLog[j] : j \in 1..Len(bootLog)}
    /\ SelectedMode \in {"3", "4"}
    /\ \A k \in 1..Len(config.nodes) : Len(keystore[k].inserts) = 2

\* insert_keystore is at the relocation of the keystores
RelocationStep ==
    /\ bootPc = "insert_keystore"
    /\ progress # NoProgress
    /\ progress.node > Len(config.nodes)

\* the chain identifier of the network: the id of chainspec.json
FinalChainId == file.data.id

\* C26: the relocation moves a node's keystore only when the final chain
\* identifier differs from the one the keys were inserted under, and then
\* to the final one; a failure for a node is reported, leaves the node's keys
\* under the original chain id, and does not end the relocation: the
\* remaining nodes are relocated and the run goes on.
C26_RelocationFailureIsIsolated ==
    [][RelocationStep
       => /\ bootPc' # "failed"
          /\ \A k \in 1..Len(config.nodes) :
                /\ keystore'[k].keys = keystore[k].keys
                /\ keystore'[k].chain # keystore[k].chain
                      => /\ FinalChainId # keystore[k].chain
                         /\ keystore'[k].chain = FinalChainId
                /\ keystore'[k].reported => keystore'[k].chain = keystore[k].chain]_vars

KeysGenerated == Done("generate_keys") \in {bootLog[j] : j \in 1..Len(bootLog)}

\* the node has the validator-account key of the account-key type, and no
\* field of the other shape
OneAccountKeyShape(node, account_key_type) ==
    IF account_key_type = "AccountId20"
    THEN /\ node.validator_accountid20_private_key # Absent
         /\ node.validator_accountid20_public_key # Absent
         /\ node.validator_accountid32_private_key = Absent
         /\ node.validator_accountid32_public_key = Absent
         /\ node.validator_accountid32_ss58 = Absent
    ELSE /\ node.validator_accountid32_private_key # Absent
         /\ node.validator_accountid32_public_key # Absent
         /\ node.validator_accountid32_ss58 # Absent
         /\ node.validator_accountid20_private_key = Absent
         /\ node.validator_accountid20_public_key = Absent

\* C27: once key generation has completed no step of the run changes any
\* field of any node record (keys, name, ports, base path), and every node
\* has exactly one validator-account key shape, the one of the account-key
\* type.
C27_NodesFrozenAfterKeygen ==
    [][KeysGenerated
       => /\ config'.nodes = config.nodes
          /\ config'.account_key_type = config.account_key_type
          /\ \A k \in 1..Len(config.nodes) :
                /\ OneAccountKeyShape(config.nodes[k], config.account_key_type)
                /\ config.nodes[k].base_path = <<"root", config.nodes[k].name>>]_vars

\* the run of an AccountId32 network has reached the start of the network
C27_Witness ==
    /\ KeysGenerated
    /\ config.account_key_type = "AccountId32"
    /\ bootPc = "supervising"

\* the supervisor holds the handle of container k
HandleHeld(k) == \E j \in 1..Len(running_containers) : running_containers[j] = k

\* C28: on the container backend the supervisor holds the handle of every
\* container that is running, and once stop_network has returned no
\* container that was started is still running.
C28_ContainersStoppedOrTracked ==
    config.exec_type = "docker"
    => /\ \A k \in 1..NumNodes : containers[k] = "running" => HandleHeld(k)
       /\ supState = "Stopped" => \A k \in 1..NumNodes : containers[k] # "running"

\* start_network was left while _start_network_bin was spawning, after it
\* had spawned a node
AbortedWhileStarting ==
    /\ config.exec_type = "bin"
    /\ supState = "Aborted"
    /\ supPhase = "none"
    /\ running_nodes = <<>>
    /\ node_procs # <<>>
    /\ Len(node_procs) < Len(config.nodes)

\* C29: when the interrupt or a spawn failure ends start_network while it
\* is Starting, after a node process was spawned and before all were, no
\* spawned process is left running and the log files of every spawned
\* process are closed.
C29_PartialStartIsCleanedUp ==
    AbortedWhileStarting
    => \A j \in 1..Len(node_procs) :
            /\ procs[node_procs[j]].state # "running"
            /\ handles[node_procs[j]].log # "open"
            /\ handles[node_procs[j]].err # "open"

\* one consensus handler has run on the base document and has written
ConsensusStageWritten ==
    /\ stageLog # <<>>
    /\ LastStage.stage \in ChainChoices
    /\ LastStage.status = "written"
    /\ \A j \in 1..(Len(stageLog) - 1) : stageLog[j].stage = "bootnodes"

\* the token amounts the pipeline injects: the fixed amounts of the
\* handlers, the balance of a node, the amounts of [network.balances]
PipelineAmounts ==
    {POA_VS_AMOUNT, DEFAULT_AMOUNT}
    \cup {config.nodes[k].balance.i : k \in 1..Len(config.nodes)}
    \cup {config.network.balances.hex[j][2] : j \in 1..Len(config.network.balances.hex)}
    \cup {config.network.balances.ss58[j][2] : j \in 1..Len(config.network.balances.ss58)}

\* tokenDecimals of the properties of the written document
WrittenDecimals ==
    IF file.data.properties.tokenDecimals.t = "int"
    THEN file.data.properties.tokenDecimals.i
    ELSE DEFAULT_TOKEN_DECIMALS

\* C30: in the chainspec a consensus handler has written, every ledger entry
\* the pipeline injected (every entry that is not one of the base document)
\* is a token amount times 10^tokenDecimals of that written document.
C30_LedgerScaledByWrittenDecimals ==
    ConsensusStageWritten
    => \A j \in 1..Len(Ledger(file.data)) :
            Ledger(file.data)[j][1] # StaleKey
            => \E amount \in PipelineAmounts :
                    Ledger(file.data)[j][2] = Scaled(amount, WrittenDecimals)

====
